---- MODULE Spec2Model ----
(***************************************************************************)
(* Document Manager API (docMgr): the document table, the upload          *)
(* directory and the vector collection, driven by the HTTP handlers of    *)
(* app.py and by the public methods of VectorPipeline                     *)
(* (repository/vector_pipeline.py).                                       *)
(*                                                                         *)
(* Abstractions.  A text is the sequence of the segments the splitter     *)
(* cuts it into; a segment is a word of Words.  An embedding is a         *)
(* direction 0, 1 or 2 (0, 90 and 180 degrees), so that the cosine        *)
(* distance 1 - cos of two embeddings is the absolute difference of the   *)
(* two numbers.  Every call to the embedding model or to the vector       *)
(* store may fail (the handler's "ok" choice); collection.delete and      *)
(* collection.add are atomic.  The handlers of app.py are "async def"     *)
(* without an await and uvicorn.run starts one event loop, so under Spec  *)
(* one request runs at a time (SerialSlots); each handler is still cut    *)
(* at its calls to the store.                                             *)
(***************************************************************************)
EXTENDS Integers, Sequences, FiniteSets, TLC

\* ---------------------------------------------------------------- bounds
MaxDocs == 2       \* uploads accepted in one run (document ids 1..MaxDocs)
MaxChunks == 2     \* segments of the longest uploaded text
MaxResults == 2    \* largest n_results a search asks for
MaxBulkStart == 1  \* a bulk upload is taken while fewer rows than this were created
MaxSessions == 2   \* rows of user_sessions created in one run
HoursPerTick == 24 \* hours the clock advances in one step
MaxTime == 48      \* the clock stops here (hours)
MaxLogins == 6     \* rows of user_sessions two workers create for one account

\* ------------------------------------------------------ program constants
MaxFilesPerRequest == 10   \* app.upload_multiple_documents: len(files) > 10
session_duration == 24     \* UserManager.__init__: timedelta(hours=24)
max_sessions_per_user == 5 \* UserManager.__init__

\* ------------------------------------------------------------ data domains
None == "None"
EmptyString == ""

Words == <<"a", "b", "c">>

\* The texts a file can hold: the first n words (n <= Len(Words) gives
\* segments that differ).
TextOf(n) == [i \in 1..n |-> Words[((i - 1) % Len(Words)) + 1]]

DOCX_TYPE == "application/vnd.openxmlformats-officedocument.wordprocessingml.document"

ImagePrefixed == {"image/png", "image/jpeg", "image/gif", "image/bmp", "image/tiff"}

\* content_type.startswith("image/")
startswith_image(content_type) == content_type \in ImagePrefixed

\* file.filename as (stem, extension); the empty filename is ("", "").
NoFilename == [stem |-> "", ext |-> ""]

\* os.path.splitext(filename)[1]
splitext(filename) == filename.ext

\* str.lower() on the extensions of the model
lower(ext) ==
    CASE ext = ".TXT" -> ".txt"
      [] OTHER -> ext

\* A file's bytes: the format they are in ("plain" and "markdown" are UTF-8
\* text, "pdf", "docx" and "image" are not), whether they are well formed
\* and the text they hold.
FileOf(format, n) == [format |-> format, readable |-> TRUE, text |-> TextOf(n)]
Readable(n) == FileOf("plain", n)
Unreadable == [format |-> "binary", readable |-> FALSE, text |-> <<>>]

Upload(stem, ext, content_type, body, description) ==
    [filename |-> [stem |-> stem, ext |-> ext], content_type |-> content_type,
     body |-> body, description |-> description]

\* The upload requests of the model: plain text files (MaxChunks segments,
\* empty, bytes that are no UTF-8), an image, an audio file and a request
\* without a file name; with and without a description.
Uploads ==
    {Upload("notes", ".txt", "text/plain", Readable(MaxChunks), None),
     Upload("notes", ".txt", "text/plain", Readable(0), "memo"),
     Upload("notes", ".txt", "text/plain", Unreadable, None),
     Upload("scan", ".png", "image/png", FileOf("image", 1), "memo"),
     Upload("song", ".mp3", "audio/mpeg", Unreadable, "memo"),
     Upload("", "", None, Unreadable, None)}

\* n times the file f
Repeat(f, n) == [i \in 1..n |-> f]

TextFile == Upload("notes", ".txt", "text/plain", Readable(1), None)
AudioFile == Upload("song", ".mp3", "audio/mpeg", Unreadable, None)
UnnamedFile == Upload("", "", None, Unreadable, None)

\* The bulk upload requests of the model: no file, a few files of which
\* one has no name, the largest list the endpoint takes and a list that is
\* one file longer; the description is the request's, for all its files.
BulkUploads ==
    {[files |-> <<>>, description |-> None],
     [files |-> <<TextFile, UnnamedFile, AudioFile>>, description |-> "memo"],
     [files |-> <<UnnamedFile, TextFile>>, description |-> None],
     [files |-> Repeat(AudioFile, MaxFilesPerRequest - 1) \o <<TextFile>>, description |-> None],
     [files |-> <<TextFile>> \o Repeat(AudioFile, MaxFilesPerRequest), description |-> None]}

Queries == {"a", "zz"}

DocIds == 1..MaxDocs

Slots == {"w1", "w2"}
SerialSlots == {"w1"}

\* ------------------------------------------------------------- app.py
\* get_supported_content_type: the extension decides, the declared type is
\* the fallback.
get_supported_content_type(filename, original_content_type) ==
    LET file_extension == lower(splitext(filename)) IN
    CASE file_extension = ".txt" -> "text/plain"
      [] file_extension = ".md" -> "text/markdown"
      [] file_extension = ".pdf" -> "application/pdf"
      [] file_extension = ".docx" -> DOCX_TYPE
      [] file_extension = ".png" -> "image/png"
      [] file_extension \in {".jpg", ".jpeg"} -> "image/jpeg"
      [] file_extension = ".gif" -> "image/gif"
      [] file_extension = ".bmp" -> "image/bmp"
      [] file_extension = ".tiff" -> "image/tiff"
      [] OTHER -> IF original_content_type = None THEN "application/octet-stream"
                  ELSE original_content_type

is_vector_processable(content_type) ==
    \/ content_type \in {"text/plain", "text/markdown", "application/pdf", DOCX_TYPE}
    \/ startswith_image(content_type)

\* ------------------------------------------------- vector_pipeline.py
\* A call's outcome: a returned value or a raised exception.
Returned(v) == [kind |-> "returned", value |-> v]
Raised(msg) == [kind |-> "raised", error |-> msg]

\* tiktoken's count for a segment
count_tokens(chunk) ==
    CASE chunk = "a" -> 1
      [] chunk = "b" -> 2
      [] OTHER -> 3

\* SentenceTransformer.encode for one string: its direction
Embed(text) ==
    CASE text \in {"a", "ai"} -> 0
      [] text = "b" -> 2
      [] OTHER -> 1

\* cosine distance of two directions
Distance(e1, e2) == IF e1 >= e2 THEN e1 - e2 ELSE e2 - e1

RECURSIVE SumTokens(_)
SumTokens(chunks) ==
    IF chunks = <<>> THEN 0
    ELSE count_tokens(Head(chunks)) + SumTokens(Tail(chunks))

ImageExtensions == {".png", ".jpg", ".jpeg", ".gif", ".bmp", ".tiff"}

\* open(file_path, 'r', encoding='utf-8').read(): the characters of the
\* file, markup included; bytes that are no UTF-8 text raise.
read_utf8(file_path, files) ==
    IF file_path \notin DOMAIN files THEN Raised("No such file")
    ELSE LET body == files[file_path] IN
         IF ~body.readable \/ body.format \notin {"plain", "markdown"}
         THEN Raised("invalid utf-8")
         ELSE IF body.format = "markdown"
         THEN Returned([i \in 1..Len(body.text) |-> "#" \o body.text[i]])
         ELSE Returned(body.text)

\* markdown.markdown followed by re.sub(r'<[^>]+>', '', html): the text
\* without its markup
markdown_to_text(md_content) ==
    [i \in 1..Len(md_content) |->
        IF \E j \in 1..Len(Words) : md_content[i] = "#" \o Words[j]
        THEN Words[CHOOSE j \in 1..Len(Words) : md_content[i] = "#" \o Words[j]]
        ELSE md_content[i]]

\* What one PDF library does with a file: it is not installed, it raises on
\* the file, it finds no text in it or it returns the text.
PdfOutcomes == {"unavailable", "raises", "empty", "text"}

\* The import and the page loop of one library inside _extract_text_from_pdf:
\* ImportError, another exception, or text_parts.
pdf_library(file_path, files, outcome) ==
    IF outcome = "unavailable" THEN [kind |-> "import_error"]
    ELSE IF file_path \notin DOMAIN files THEN Raised("No such file")
    ELSE IF ~files[file_path].readable \/ files[file_path].format # "pdf" \/ outcome = "raises"
    THEN Raised("No /Root object")
    ELSE IF outcome = "empty" THEN Returned(<<>>)
    ELSE Returned(files[file_path].text)

\* _extract_text_from_pdf: pdfplumber first, then PyPDF2.  "except
\* ImportError: pass" lets only a missing library through to the next step;
\* any other exception of a library leaves the function through "except
\* Exception".
extract_text_from_pdf(file_path, files, pdfplumber, PyPDF2) ==
    LET first == pdf_library(file_path, files, pdfplumber)
        second == pdf_library(file_path, files, PyPDF2)
    IN
    IF first.kind = "raised"
    THEN Raised("Error extracting text from PDF: " \o first.error)
    ELSE IF first.kind = "returned" /\ first.value # <<>> THEN first
    ELSE IF second.kind = "raised"
    THEN Raised("Error extracting text from PDF: " \o second.error)
    ELSE IF second.kind = "returned" /\ second.value # <<>> THEN second
    ELSE Raised("Error extracting text from PDF: PDF text extraction failed - neither pdfplumber nor PyPDF2 available")

\* _extract_text_from_docx: the paragraphs of the document; a file that is
\* no DOCX package and a document without text raise.
extract_text_from_docx(file_path, files) ==
    IF file_path \notin DOMAIN files \/ ~files[file_path].readable
       \/ files[file_path].format # "docx"
    THEN Raised("Error extracting text from DOCX: Package not found")
    ELSE IF files[file_path].text = <<>>
    THEN Raised("Error extracting text from DOCX: No text content found in DOCX file")
    ELSE Returned(files[file_path].text)

\* _extract_text_from_image: the Groq key is checked before the image is
\* loaded; a file that is missing or is no image fails to load; the OCR
\* text is followed by the model's description, or by a note when the Groq
\* call fails (groq_ok).
extract_text_from_image(file_path, files, groq_api_key, groq_ok) ==
    IF ~groq_api_key
    THEN Raised("Error processing image: GROQ_API_KEY environment variable not set")
    ELSE IF file_path \notin DOMAIN files \/ ~files[file_path].readable
            \/ files[file_path].format # "image"
    THEN Raised("Error processing image: Could not load image file")
    ELSE IF groq_ok THEN Returned(files[file_path].text \o <<"ai">>)
    ELSE Returned(files[file_path].text \o <<"note">>)

\* What the extraction depends on besides the file: the Groq call (groq_ok)
\* and the two PDF libraries.
Environments ==
    [groq_ok : BOOLEAN, pdfplumber : PdfOutcomes, PyPDF2 : PdfOutcomes]

\* _extract_text_from_file, the if/elif chain: the first branch whose
\* content type or whose path ending matches names the extractor.
extractor_for(file_path, content_type) ==
    IF content_type = "text/plain" \/ file_path.ext = ".txt" THEN "text"
    ELSE IF content_type = "text/markdown" \/ file_path.ext = ".md" THEN "markdown"
    ELSE IF content_type = "application/pdf" \/ file_path.ext = ".pdf" THEN "pdf"
    ELSE IF content_type = DOCX_TYPE \/ file_path.ext = ".docx" THEN "docx"
    ELSE IF startswith_image(content_type) \/ lower(file_path.ext) \in ImageExtensions
    THEN "image"
    ELSE "none"

\* The environments that make a difference for a file: the PDF libraries
\* are consulted in the PDF branch only, the Groq call in the image branch.
EnvironmentsFor(file_path, content_type) ==
    {env \in Environments :
        /\ extractor_for(file_path, content_type) # "pdf"
              => env.pdfplumber = "text" /\ env.PyPDF2 = "text"
        /\ extractor_for(file_path, content_type) # "image" => env.groq_ok}

\* "except Exception as e: raise Exception(f'Error extracting text from
\* file: {str(e)}')"
extract_reraise(r) ==
    IF r.kind = "raised" THEN Raised("Error extracting text from file: " \o r.error) ELSE r

\* Mutant of extract_text_from_file: what the other branches do not take is
\* handed on as it is, neither decoded nor refused.
extract_text_from_file_lenient(file_path, content_type, files, groq_api_key, env) ==
    LET extractor == extractor_for(file_path, content_type)
        text == read_utf8(file_path, files)
    IN
    extract_reraise(
       CASE extractor = "markdown" ->
              IF text.kind = "raised" THEN text ELSE Returned(markdown_to_text(text.value))
         [] extractor = "pdf" -> extract_text_from_pdf(file_path, files, env.pdfplumber, env.PyPDF2)
         [] extractor = "docx" -> extract_text_from_docx(file_path, files)
         [] extractor = "image" ->
              extract_text_from_image(file_path, files, groq_api_key, env.groq_ok)
         [] OTHER -> IF file_path \notin DOMAIN files THEN Raised("No such file")
                     ELSE Returned(files[file_path].text))

\* _extract_text_from_file: the extractor of the branch taken; every
\* failure is re-raised as "Error extracting text from file".
extract_text_from_file(file_path, content_type, files, groq_api_key, env) ==
    LET extractor == extractor_for(file_path, content_type)
        text == read_utf8(file_path, files)
    IN
    extract_reraise(
       CASE extractor = "text" -> text
         [] extractor = "markdown" ->
              IF text.kind = "raised" THEN text ELSE Returned(markdown_to_text(text.value))
         [] extractor = "pdf" -> extract_text_from_pdf(file_path, files, env.pdfplumber, env.PyPDF2)
         [] extractor = "docx" -> extract_text_from_docx(file_path, files)
         [] extractor = "image" ->
              extract_text_from_image(file_path, files, groq_api_key, env.groq_ok)
         [] OTHER -> Raised("Unsupported file type: " \o content_type))

\* _chunk_text: the splitter's segments, in order
chunk_text(text) == text

\* _generate_embeddings: one embedding per chunk, in order; a failure of
\* the model is re-raised.
generate_embeddings(chunks, ok) ==
    IF ok THEN Returned([i \in 1..Len(chunks) |-> Embed(chunks[i])])
    ELSE Raised("Error generating embeddings")

\* Mutant of chunk_id: the document id is left out of the id.
chunk_id_index_only(document_id, i) == ToString(i)

\* chunk_id = f"{document_id}_{i}"
chunk_id(document_id, i) == ToString(document_id) \o "_" \o ToString(i)

\* Mutant of description_or_empty: the description is stored as it came.
description_as_given(description) == description

\* description or ""
description_or_empty(description) ==
    IF description = None \/ description = EmptyString THEN EmptyString ELSE description

\* Mutant of chunk_metadata: total_chunks counts the chunks stored so far.
chunk_metadata_running_total(document_id, i, original_filename, content_type, description, chunks) ==
    [document_id |-> document_id,
     chunk_index |-> i,
     original_filename |-> original_filename,
     content_type |-> content_type,
     description |-> description_or_empty(description),
     chunk_size |-> count_tokens(chunks[i + 1]),
     total_chunks |-> i + 1]

\* process_document, the metadata of chunk i (0-based) of chunks
chunk_metadata(document_id, i, original_filename, content_type, description, chunks) ==
    [document_id |-> document_id,
     chunk_index |-> i,
     original_filename |-> original_filename,
     content_type |-> content_type,
     description |-> description_or_empty(description),
     chunk_size |-> count_tokens(chunks[i + 1]),
     total_chunks |-> Len(chunks)]

\* Mutant of processed_result: a document without chunks is an error.
processed_result_nonempty(document_id, original_filename, chunks, chunk_ids) ==
    IF chunks = <<>>
    THEN [document_id |-> document_id,
          original_filename |-> original_filename,
          status |-> "error",
          error |-> "No chunks"]
    ELSE [document_id |-> document_id,
          original_filename |-> original_filename,
          total_chunks |-> Len(chunks),
          total_tokens |-> SumTokens(chunks),
          chunk_ids |-> chunk_ids,
          status |-> "processed"]

\* process_document, its "processed" result
processed_result(document_id, original_filename, chunks, chunk_ids) ==
    [document_id |-> document_id,
     original_filename |-> original_filename,
     total_chunks |-> Len(chunks),
     total_tokens |-> SumTokens(chunks),
     chunk_ids |-> chunk_ids,
     status |-> "processed"]

\* Mutant of process_on_exception: the exception leaves process_document.
process_on_exception_raise(document_id, original_filename, e) == Raised(e)

\* process_document, "except Exception as e": the error result is returned
process_on_exception(document_id, original_filename, e) ==
    Returned([document_id |-> document_id,
              original_filename |-> original_filename,
              status |-> "error",
              error |-> e])

\* ----------------------------------------------- the vector collection
\* Mutant of collection_on_exception: the chunks of the failed run are
\* taken out again.
collection_rolled_back(coll, chunk_ids) ==
    {c \in coll : \A j \in 1..Len(chunk_ids) : c.id # chunk_ids[j]}

\* process_document, "except Exception as e": the handler builds the error
\* result and does not touch the collection
collection_on_exception(coll, chunk_ids) == coll

\* Mutant of collection_get: the where filter is ignored.
collection_get_unfiltered(coll, document_id) == coll

\* collection.get(where={"document_id": document_id}): the matching entries
collection_get(coll, document_id) ==
    {c \in coll : c.metadata.document_id = document_id}

\* Mutant of collection_delete: the call removes nothing.
collection_delete_nothing(coll, ids) == coll

\* collection.delete(ids=ids)
collection_delete(coll, ids) == {c \in coll : c.id \notin ids}

\* collection.count()
collection_count(coll) == Cardinality(coll)

Min(a, b) == IF a <= b THEN a ELSE b

\* collection.query(query_embeddings=[q], n_results=n): the n nearest
\* entries in ascending distance, ties in any order; each row carries the
\* distance the store reports.
collection_query(coll, q, n) ==
    LET k == Min(n, Cardinality(coll)) IN
    {[j \in 1..k |-> [id |-> s[j].id, document |-> s[j].document,
                      metadata |-> s[j].metadata,
                      distance |-> Distance(q, s[j].embedding)]] :
        s \in {t \in [1..k -> coll] :
                 /\ \A a, b \in 1..k : a < b =>
                       /\ t[a] # t[b]
                       /\ Distance(q, t[a].embedding) <= Distance(q, t[b].embedding)
                 /\ \A c \in coll : (\A a \in 1..k : t[a] # c) =>
                       \A a \in 1..k : Distance(q, t[a].embedding) <= Distance(q, c.embedding)}}

\* The orders in which collection.get may hand back a set of entries.
Orderings(S) ==
    {t \in [1..Cardinality(S) -> S] : \A a, b \in 1..Cardinality(S) : a # b => t[a] # t[b]}

\* sorted(chunks, key=lambda x: x['metadata']['chunk_index']): stable
RECURSIVE InsertByIndex(_, _)
InsertByIndex(sorted, x) ==
    IF sorted = <<>> THEN <<x>>
    ELSE IF sorted[Len(sorted)].metadata.chunk_index <= x.metadata.chunk_index
    THEN Append(sorted, x)
    ELSE Append(InsertByIndex(SubSeq(sorted, 1, Len(sorted) - 1), x), sorted[Len(sorted)])

RECURSIVE SortedPrefix(_, _)
SortedPrefix(chunks, n) ==
    IF n = 0 THEN <<>> ELSE InsertByIndex(SortedPrefix(chunks, n - 1), chunks[n])

\* Mutant of sort_by_chunk_index: the store's order is kept.
unsorted(chunks) == chunks

sort_by_chunk_index(chunks) == SortedPrefix(chunks, Len(chunks))

\* get_document_chunks, the rows it builds from the store's answer
document_chunk(c) == [chunk_id |-> c.id, content |-> c.document, metadata |-> c.metadata]

\* Mutant of similarity_score: the distance is reported as the score.
similarity_is_distance(distance) == distance

\* search_documents: "similarity_score": 1 - distance
similarity_score(distance) == 1 - distance

\* Mutant of format_results: the first row is read without a guard.
format_results_unguarded(rows) ==
    IF rows = <<>> THEN Raised("list index out of range")
    ELSE Returned([j \in 1..Len(rows) |->
        [chunk_id |-> rows[j].id,
         content |-> rows[j].document,
         metadata |-> rows[j].metadata,
         similarity_score |-> 1 - rows[j].distance]])

\* search_documents, the formatting of the store's answer (results['ids'][0])
format_results(rows) ==
    Returned([j \in 1..Len(rows) |->
        [chunk_id |-> rows[j].id,
         content |-> rows[j].document,
         metadata |-> rows[j].metadata,
         similarity_score |-> similarity_score(rows[j].distance)]])

\* Mutant of search_on_exception: the failure is answered with no results.
search_on_exception_swallow(e) == Returned(<<>>)

\* search_documents, "except Exception as e": re-raised
search_on_exception(e) == Raised("Error searching documents: " \o e)

\* get_document_chunks, "except Exception as e": re-raised
chunks_on_exception(e) == Raised("Error retrieving document chunks: " \o e)

\* delete_document_chunks, "except Exception as e": re-raised
delete_on_exception(e) == Raised("Error deleting document chunks: " \o e)

\* Mutant of delete_is_called: the ids found are never deleted.
delete_never_called(ids) == FALSE

\* delete_document_chunks: collection.delete is called only for a non-empty
\* list of ids
delete_is_called(ids) == ids # {}

\* Mutant of delete_return: the call reports whether it deleted anything.
delete_return_found(ids) == Returned(ids # {})

\* delete_document_chunks: "return True"
delete_return(ids) == Returned(TRUE)

\* get_collection_stats: the statistics
collection_stats(coll, sample) ==
    Returned([total_chunks |-> collection_count(coll),
              collection_name |-> "documents",
              sample_metadata |-> sample])

\* get_collection_stats, "except Exception as e": an error record is returned
stats_on_exception(e) == Returned([error |-> e])

\* ------------------------------------------------------------ the state
VARIABLES
    VECTOR_PIPELINE_AVAILABLE,  \* app.py: VectorPipeline() could be built
    GROQ_API_KEY,               \* the environment holds the Groq key
    documents,                  \* the rows of the documents table
    lastrowid,                  \* the table's AUTOINCREMENT sequence
    files,                      \* the upload directory: path -> bytes
    collection,                 \* the Chroma collection "documents"
    users,                      \* the rows of the users table
    user_sessions,              \* the rows of the user_sessions table
    now,                        \* datetime.now(), in hours
    req                         \* per worker, the request it runs or ran last

vars == <<VECTOR_PIPELINE_AVAILABLE, GROQ_API_KEY, documents, lastrowid, files,
          collection, users, user_sessions, now, req>>

NoOutcome == [kind |-> "none"]
NoRow == [id |-> 0]

\* A worker that has not run anything yet.
Idle ==
    [op |-> "none", pc |-> "idle", document_id |-> 0, document |-> NoRow,
     text |-> NoOutcome, chunks |-> <<>>, embeddings |-> <<>>, i |-> 0,
     chunk_ids |-> <<>>,
     ids |-> {}, query |-> "", n_results |-> 0, rows |-> <<>>,
     fault |-> FALSE, again |-> FALSE,
     bulk_files |-> <<>>, description |-> None, k |-> 0,
     uploaded_documents |-> <<>>, errors |-> <<>>,
     user |-> [username |-> ""], session_token |-> 0, rows_before |-> 0,
     fresh |-> FALSE, correct |-> FALSE, meanwhile |-> {},
     extractor |-> "none", active_sessions |-> 0,
     env |-> [groq_ok |-> TRUE, pdfplumber |-> "text", PyPDF2 |-> "text"],
     deleted |-> NoOutcome, processed |-> NoOutcome, result |-> NoOutcome,
     response |-> [status |-> 0]]

Init ==
    /\ VECTOR_PIPELINE_AVAILABLE \in BOOLEAN
    /\ GROQ_API_KEY \in BOOLEAN
    /\ documents = {}
    /\ lastrowid = 0
    /\ files = <<>>
    /\ collection = {}
    /\ users = {}
    /\ user_sessions = {}
    /\ now = 0
    /\ req = [r \in Slots |-> Idle]

\* The worker is free to take a request.
AtRest(r) == req[r].pc = "idle"

\* sqlDB.get_document_by_id: the row, or HTTP 404
get_document_by_id(docs, document_id) ==
    IF \E d \in docs : d.id = document_id
    THEN Returned(CHOOSE d \in docs : d.id = document_id)
    ELSE Raised("404: Document not found")

HTTP(status, body) == [status |-> status, body |-> body]

\* models.documentDto.create_document_response: the row, and the processing
\* result when there is one
create_document_response(document, processing_result) ==
    IF processing_result.kind = "returned"
    THEN [document |-> document, processing_result |-> processing_result.value]
    ELSE [document |-> document]

\* app.process_document_with_vector_pipeline, after process_document: its
\* result, or None when it raised
processing_result_of(outcome) ==
    IF outcome.kind = "returned" THEN outcome ELSE NoOutcome

\* Mutant of upload_response: a failed processing fails the upload.
upload_response_strict(docs, document_id, outcome) ==
    IF outcome.kind = "raised"
       \/ (outcome.kind = "returned" /\ outcome.value.status = "error")
    THEN [status |-> 500, body |-> "Vector processing failed"]
    ELSE LET document == get_document_by_id(docs, document_id) IN
         IF document.kind = "raised" THEN [status |-> 404, body |-> document.error]
         ELSE [status |-> 200,
               body |-> create_document_response(document.value, processing_result_of(outcome))]

\* app.process_single_document after the vector pipeline: the row is read
\* back and the response is built
upload_response(docs, document_id, outcome) ==
    LET document == get_document_by_id(docs, document_id) IN
    IF document.kind = "raised" THEN HTTP(404, document.error)
    ELSE HTTP(200, create_document_response(document.value, processing_result_of(outcome)))

\* app.reprocess_document after process_document: the result is the response;
\* an exception is HTTP 500
reprocess_response(outcome) ==
    IF outcome.kind = "returned" THEN HTTP(200, outcome.value)
    ELSE HTTP(500, "Reprocessing failed: " \o outcome.error)

\* models.documentDto.BulkUploadResponse as upload_multiple_documents
\* builds it
bulk_upload_response(uploaded_documents, errors) ==
    [message |-> "Upload completed. " \o ToString(Len(uploaded_documents))
                    \o " files uploaded successfully.",
     uploaded_count |-> Len(uploaded_documents),
     documents |-> uploaded_documents,
     errors |-> errors]

\* upload_multiple_documents, the end of one turn of "for file in files":
\* the next file, or the response after the last one
bulk_next(rq) ==
    IF rq.k < Len(rq.bulk_files)
    THEN [rq EXCEPT !.pc = "bulk_file", !.k = rq.k + 1]
    ELSE [rq EXCEPT !.pc = "done",
                    !.response = HTTP(200, bulk_upload_response(rq.uploaded_documents,
                                                                rq.errors))]

\* Mutant of bulk_on_exception: the first failing file ends the request.
bulk_on_exception_abort(rq, filename, e) ==
    LET errors == Append(rq.errors, [file |-> filename, error |-> e]) IN
    [rq EXCEPT !.pc = "done", !.errors = errors,
               !.response = HTTP(200, bulk_upload_response(rq.uploaded_documents, errors))]

\* upload_multiple_documents, a file without a name and "except Exception
\* as e": the error is collected and the loop goes on
bulk_on_exception(rq, filename, e) ==
    bulk_next([rq EXCEPT !.errors = Append(rq.errors, [file |-> filename, error |-> e])])

\* upload_multiple_documents: uploaded_documents.append(doc_response)
bulk_on_response(rq, doc_response) ==
    bulk_next([rq EXCEPT !.uploaded_documents = Append(rq.uploaded_documents, doc_response)])

\* What the caller of process_single_document does with an exception of it:
\* the upload endpoint answers with it, the bulk endpoint collects it.
OnUploadException(rq, status, detail) ==
    CASE rq.op = "upload_multiple" -> bulk_on_exception(rq, rq.document.original_filename, detail)
      [] OTHER -> [rq EXCEPT !.pc = "done", !.response = HTTP(status, detail)]

\* What the caller of process_document does with its outcome.
AfterProcess(rq, outcome, docs) ==
    LET done == [rq EXCEPT !.pc = "done", !.processed = outcome] IN
    CASE rq.op = "upload" ->
           [done EXCEPT !.response = upload_response(docs, rq.document_id, outcome)]
      [] rq.op = "upload_multiple" ->
           LET response == upload_response(docs, rq.document_id, outcome) IN
           IF response.status = 200 THEN bulk_on_response(done, response.body)
           ELSE OnUploadException(done, response.status, response.body)
      [] rq.op = "reprocess" ->
           [done EXCEPT !.response = reprocess_response(outcome)]
      [] OTHER -> done

\* What the caller of delete_document_chunks does with its outcome:
\* reprocess_document goes on to process_document or answers 500,
\* delete_document prints a warning and goes on.
AfterDelete(rq, outcome) ==
    LET got == [rq EXCEPT !.deleted = outcome] IN
    CASE rq.op = "reprocess" ->
           IF outcome.kind = "returned" THEN [got EXCEPT !.pc = "extract"]
           ELSE [got EXCEPT !.pc = "done",
                            !.response = HTTP(500, "Reprocessing failed: " \o outcome.error)]
      [] rq.op = "delete_document" -> [got EXCEPT !.pc = "del_row"]
      [] OTHER -> [got EXCEPT !.pc = "done"]

\* ------------------------------------------------- process_document
\* process_document up to the store loop: extract, chunk, embed.  A failure
\* becomes the error result; no chunk means the loop is never entered.
ExtractChunkEmbed(r) ==
    /\ req[r].pc = "extract"
    /\ \E env \in EnvironmentsFor(req[r].document.file_path, req[r].document.content_type),
          ok \in BOOLEAN :
         LET rq == req[r]
             d == rq.document
             text == extract_text_from_file(d.file_path, d.content_type, files,
                                            GROQ_API_KEY, env)
             chunks == chunk_text(text.value)
             embeddings == generate_embeddings(chunks, ok)
         IN
         req' = [req EXCEPT ![r] =
            IF text.kind = "raised"
            THEN AfterProcess([rq EXCEPT !.text = text],
                     process_on_exception(rq.document_id, d.original_filename, text.error),
                     documents)
            ELSE IF embeddings.kind = "raised"
            THEN AfterProcess([rq EXCEPT !.fault = TRUE, !.text = text, !.chunks = chunks],
                     process_on_exception(rq.document_id, d.original_filename, embeddings.error),
                     documents)
            ELSE IF Len(chunks) = 0
            THEN AfterProcess([rq EXCEPT !.text = text, !.chunks = chunks,
                                         !.embeddings = embeddings.value],
                     Returned(processed_result(rq.document_id, d.original_filename, chunks, <<>>)),
                     documents)
            ELSE [rq EXCEPT !.pc = "store", !.text = text, !.chunks = chunks,
                            !.embeddings = embeddings.value, !.i = 0, !.chunk_ids = <<>>]]
    /\ UNCHANGED <<users, user_sessions, now, VECTOR_PIPELINE_AVAILABLE, GROQ_API_KEY, documents, lastrowid, files,
                   collection>>

\* process_document, one turn of the store loop: collection.add of chunk i.
\* The store may fail (ok); an id it already holds is either refused with an
\* exception or skipped, depending on the Chroma version (refuses).
StoreChunk(r) ==
    /\ req[r].pc = "store"
    /\ \E ok, refuses \in BOOLEAN :
         LET rq == req[r]
             d == rq.document
             i == rq.i
             id == chunk_id(rq.document_id, i)
             chunk_ids == Append(rq.chunk_ids, id)
             metadata == chunk_metadata(rq.document_id, i, d.original_filename,
                                        d.content_type, d.description, rq.chunks)
             entry == [id |-> id, embedding |-> rq.embeddings[i + 1],
                       document |-> rq.chunks[i + 1], metadata |-> metadata]
             held == \E c \in collection : c.id = id
             next == [rq EXCEPT !.i = i + 1, !.chunk_ids = chunk_ids]
             more == IF i + 1 < Len(rq.chunks) THEN next
                     ELSE AfterProcess(next,
                              Returned(processed_result(rq.document_id, d.original_filename,
                                                        rq.chunks, chunk_ids)),
                              documents)
         IN
         IF ~ok
         THEN /\ req' = [req EXCEPT ![r] =
                    AfterProcess([rq EXCEPT !.fault = TRUE, !.chunk_ids = chunk_ids],
                        process_on_exception(rq.document_id, d.original_filename,
                                             "vector store failure"),
                        documents)]
              /\ collection' = collection_on_exception(collection, chunk_ids)
         ELSE IF held /\ refuses
         THEN /\ req' = [req EXCEPT ![r] =
                    AfterProcess([rq EXCEPT !.chunk_ids = chunk_ids],
                        process_on_exception(rq.document_id, d.original_filename,
                                             "ID already exists"),
                        documents)]
              /\ collection' = collection_on_exception(collection, chunk_ids)
         ELSE /\ collection' = IF held THEN collection ELSE collection \cup {entry}
              /\ req' = [req EXCEPT ![r] = more]
    /\ UNCHANGED <<users, user_sessions, now, VECTOR_PIPELINE_AVAILABLE, GROQ_API_KEY, documents, lastrowid, files>>

\* ------------------------------------------- delete_document_chunks
\* delete_document_chunks, collection.get of the document's ids
DeleteGetIds(r) ==
    /\ req[r].pc = "del_get"
    /\ \E ok \in BOOLEAN :
         LET rq == req[r]
             ids == {c.id : c \in collection_get(collection, rq.document_id)}
         IN
         req' = [req EXCEPT ![r] =
            IF ~ok
            THEN AfterDelete([rq EXCEPT !.fault = TRUE],
                             delete_on_exception("vector store failure"))
            ELSE IF delete_is_called(ids)
            THEN [rq EXCEPT !.pc = "del_delete", !.ids = ids]
            ELSE AfterDelete([rq EXCEPT !.ids = ids], delete_return(ids))]
    /\ UNCHANGED <<users, user_sessions, now, VECTOR_PIPELINE_AVAILABLE, GROQ_API_KEY, documents, lastrowid, files,
                   collection>>

\* delete_document_chunks, collection.delete of the ids found
DeleteIds(r) ==
    /\ req[r].pc = "del_delete"
    /\ \E ok \in BOOLEAN :
         LET rq == req[r] IN
         IF ~ok
         THEN /\ req' = [req EXCEPT ![r] =
                    AfterDelete([rq EXCEPT !.fault = TRUE],
                                delete_on_exception("vector store failure"))]
              /\ UNCHANGED collection
         ELSE /\ collection' = collection_delete(collection, rq.ids)
              /\ req' = [req EXCEPT ![r] = AfterDelete(rq, delete_return(rq.ids))]
    /\ UNCHANGED <<users, user_sessions, now, VECTOR_PIPELINE_AVAILABLE, GROQ_API_KEY, documents, lastrowid, files>>

\* ------------------------------------------------------ the handlers
\* app.process_single_document up to the vector pipeline, called with the
\* request record rq of its caller.  The file is saved under a fresh name
\* (the disk may fail: save_ok) and the row is created; a type the pipeline
\* does not take, or no pipeline, ends the call.
process_single_document(r, f, description, rq) ==
    \E save_ok \in BOOLEAN :
       LET content_type == get_supported_content_type(f.filename, f.content_type)
           document_id == lastrowid + 1
           file_path == [no |-> document_id, ext |-> splitext(f.filename)]
           row == [id |-> document_id, original_filename |-> f.filename,
                   file_path |-> file_path, content_type |-> content_type,
                   description |-> description]
           called == [rq EXCEPT !.document = [id |-> 0, original_filename |-> f.filename]]
           saved == [rq EXCEPT !.document_id = document_id, !.document = row]
       IN
       IF f.filename = NoFilename
       THEN /\ req' = [req EXCEPT ![r] = OnUploadException(called, 400, "No file provided")]
            /\ UNCHANGED <<documents, lastrowid, files>>
       ELSE IF ~save_ok
       THEN /\ req' = [req EXCEPT ![r] = OnUploadException(called, 500, "No space left on device")]
            /\ UNCHANGED <<documents, lastrowid, files>>
       ELSE /\ rq.op = "upload" => lastrowid < MaxDocs
            /\ files' = (file_path :> f.body) @@ files
            /\ lastrowid' = document_id
            /\ documents' = documents \cup {row}
            /\ req' = [req EXCEPT ![r] =
                  IF ~VECTOR_PIPELINE_AVAILABLE \/ ~is_vector_processable(content_type)
                  THEN AfterProcess(saved, NoOutcome, documents')
                  ELSE [saved EXCEPT !.pc = "extract"]]

\* POST /api/documents/upload
UploadDocument(r) ==
    /\ AtRest(r)
    /\ \E f \in Uploads :
         process_single_document(r, f, f.description, [Idle EXCEPT !.op = "upload"])
    /\ UNCHANGED <<users, user_sessions, now, VECTOR_PIPELINE_AVAILABLE, GROQ_API_KEY, collection>>

\* Mutant of too_many_files: the limit is off by one.
too_many_files_off_by_one(file_list) == Len(file_list) > MaxFilesPerRequest + 1

\* upload_multiple_documents: "if len(files) > 10"
too_many_files(file_list) == Len(file_list) > MaxFilesPerRequest

\* POST /api/documents/upload-multiple, up to the loop over the files
UploadMultipleDocuments(r) ==
    /\ AtRest(r)
    /\ lastrowid < MaxBulkStart
    /\ \E request \in BulkUploads :
         LET start == [Idle EXCEPT !.op = "upload_multiple",
                                   !.bulk_files = request.files,
                                   !.description = request.description]
         IN
         req' = [req EXCEPT ![r] =
            IF request.files = <<>>
            THEN [start EXCEPT !.pc = "done", !.response = HTTP(400, "No files provided")]
            ELSE IF too_many_files(request.files)
            THEN [start EXCEPT !.pc = "done",
                               !.response = HTTP(400, "Maximum 10 files allowed per request")]
            ELSE [start EXCEPT !.pc = "bulk_file", !.k = 1]]
    /\ UNCHANGED <<users, user_sessions, now, VECTOR_PIPELINE_AVAILABLE, GROQ_API_KEY, documents, lastrowid, files,
                   collection>>

\* upload_multiple_documents, one turn of "for file in files": a file
\* without a name is noted in errors, any other goes through
\* process_single_document.
BulkFile(r) ==
    /\ req[r].pc = "bulk_file"
    /\ LET rq == req[r]
           file == rq.bulk_files[rq.k]
           turn == [Idle EXCEPT !.op = rq.op, !.bulk_files = rq.bulk_files,
                                !.description = rq.description, !.k = rq.k,
                                !.uploaded_documents = rq.uploaded_documents,
                                !.errors = rq.errors]
       IN
       IF file.filename = NoFilename
       THEN /\ req' = [req EXCEPT ![r] =
                  bulk_on_exception(turn, "unnamed", "No filename provided")]
            /\ UNCHANGED <<documents, lastrowid, files>>
       ELSE process_single_document(r, file, rq.description, turn)
    /\ UNCHANGED <<users, user_sessions, now, VECTOR_PIPELINE_AVAILABLE, GROQ_API_KEY, collection>>

\* POST /api/documents/{document_id}/reprocess, up to delete_document_chunks
ReprocessDocument(r) ==
    /\ AtRest(r)
    /\ \E document_id \in DocIds :
         LET start == [Idle EXCEPT !.op = "reprocess", !.document_id = document_id]
             document == get_document_by_id(documents, document_id)
         IN
         req' = [req EXCEPT ![r] =
            IF ~VECTOR_PIPELINE_AVAILABLE
            THEN [start EXCEPT !.pc = "done",
                               !.response = HTTP(503, "Vector pipeline not available")]
            ELSE IF document.kind = "raised"
            THEN [start EXCEPT !.pc = "done", !.response = HTTP(404, document.error)]
            ELSE IF document.value.content_type \notin {"text/plain", "text/markdown"}
            THEN [start EXCEPT !.pc = "done",
                               !.response = HTTP(400, "Document type not supported for vector processing")]
            ELSE [start EXCEPT !.pc = "del_get", !.document = document.value]]
    /\ UNCHANGED <<users, user_sessions, now, VECTOR_PIPELINE_AVAILABLE, GROQ_API_KEY, documents, lastrowid, files,
                   collection>>

\* DELETE /api/documents/{document_id}, up to delete_document_chunks
DeleteDocument(r) ==
    /\ AtRest(r)
    /\ \E document_id \in DocIds :
         LET start == [Idle EXCEPT !.op = "delete_document", !.document_id = document_id]
             document == get_document_by_id(documents, document_id)
         IN
         req' = [req EXCEPT ![r] =
            IF document.kind = "raised"
            THEN [start EXCEPT !.pc = "done", !.response = HTTP(404, document.error)]
            ELSE IF VECTOR_PIPELINE_AVAILABLE
            THEN [start EXCEPT !.pc = "del_get", !.document = document.value]
            ELSE [start EXCEPT !.pc = "del_row", !.document = document.value]]
    /\ UNCHANGED <<users, user_sessions, now, VECTOR_PIPELINE_AVAILABLE, GROQ_API_KEY, documents, lastrowid, files,
                   collection>>

\* delete_document after the chunks: the file is removed, then the row
DeleteRow(r) ==
    /\ req[r].pc = "del_row"
    /\ LET rq == req[r] IN
       /\ files' = [p \in DOMAIN files \ {rq.document.file_path} |-> files[p]]
       /\ documents' = {d \in documents : d.id # rq.document_id}
       /\ req' = [req EXCEPT ![r] =
             [rq EXCEPT !.pc = "done",
                        !.response = HTTP(200, "Document deleted successfully")]]
    /\ UNCHANGED <<users, user_sessions, now, VECTOR_PIPELINE_AVAILABLE, GROQ_API_KEY, lastrowid, collection>>

\* Mutant of query_embedding: the query is embedded as another text.
query_embedding_other(query) == (Embed(query) + 1) % 3

\* search_documents: query_embedding = self._generate_embeddings([query])[0]
query_embedding(query) == Embed(query)

\* VectorPipeline.search_documents: embed the query, query the store (which
\* refuses n_results < 1), format the rows; any exception is re-raised.
search_documents(rows, n_results, embed_ok, store_ok) ==
    IF ~embed_ok THEN search_on_exception("Error generating embeddings")
    ELSE IF ~store_ok THEN search_on_exception("vector store failure")
    ELSE IF n_results < 1 THEN search_on_exception("Number of requested results cannot be negative, or zero")
    ELSE format_results(rows)

\* app.search_documents, get_document_chunks: the pipeline's value, or 500
read_response(outcome, what) ==
    IF outcome.kind = "returned" THEN HTTP(200, outcome.value)
    ELSE HTTP(500, what \o outcome.error)

\* POST /api/search
SearchDocuments(r) ==
    /\ AtRest(r)
    /\ \E query \in Queries, n_results \in 0..MaxResults, embed_ok, store_ok \in BOOLEAN :
       \E rows \in collection_query(collection, query_embedding(query), n_results) :
         LET start == [Idle EXCEPT !.op = "search", !.query = query,
                                   !.n_results = n_results]
             outcome == search_documents(rows, n_results, embed_ok, store_ok)
         IN
         req' = [req EXCEPT ![r] =
            IF ~VECTOR_PIPELINE_AVAILABLE
            THEN [start EXCEPT !.pc = "done",
                               !.response = HTTP(503, "Vector pipeline not available")]
            ELSE [start EXCEPT !.pc = "done",
                               !.fault = ~embed_ok \/ ~store_ok,
                               !.rows = IF embed_ok /\ store_ok /\ n_results >= 1
                                        THEN rows ELSE <<>>,
                               !.result = outcome,
                               !.response = read_response(outcome, "Search failed: ")]]
    /\ UNCHANGED <<users, user_sessions, now, VECTOR_PIPELINE_AVAILABLE, GROQ_API_KEY, documents, lastrowid, files,
                   collection>>

\* VectorPipeline.get_document_chunks: the store's answer (in the order the
\* store hands it back), sorted by chunk_index; an exception is re-raised.
get_document_chunks(answer, ok) ==
    IF ~ok THEN chunks_on_exception("vector store failure")
    ELSE Returned(sort_by_chunk_index([j \in 1..Len(answer) |-> document_chunk(answer[j])]))

\* The reprocess requests of the document that the other workers are in the
\* middle of: where each of them stands.
reprocess_in_flight(r, document_id) ==
    {[pc |-> req[o].pc, i |-> req[o].i] :
        o \in {w \in Slots \ {r} : /\ req[w].op = "reprocess"
                                    /\ req[w].document_id = document_id
                                    /\ req[w].pc \notin {"idle", "done"}}}

\* GET /api/documents/{document_id}/chunks; "meanwhile" notes what the other
\* workers were doing to the document when the store was read.
GetDocumentChunks(r) ==
    /\ AtRest(r)
    /\ \E document_id \in DocIds, ok \in BOOLEAN :
       \E answer \in Orderings(collection_get(collection, document_id)) :
         LET start == [Idle EXCEPT !.op = "chunks", !.document_id = document_id,
                                   !.meanwhile = reprocess_in_flight(r, document_id)]
             outcome == get_document_chunks(answer, ok)
         IN
         req' = [req EXCEPT ![r] =
            IF ~VECTOR_PIPELINE_AVAILABLE
            THEN [start EXCEPT !.pc = "done",
                               !.response = HTTP(503, "Vector pipeline not available")]
            ELSE [start EXCEPT !.pc = "done", !.fault = ~ok, !.result = outcome,
                               !.response = read_response(outcome, "Failed to retrieve chunks: ")]]
    /\ UNCHANGED <<users, user_sessions, now, VECTOR_PIPELINE_AVAILABLE, GROQ_API_KEY, documents, lastrowid, files,
                   collection>>

\* VectorPipeline.get_collection_stats: count and one sample; an exception is
\* returned as an error record.
get_collection_stats(coll, sample, ok) ==
    IF ~ok THEN stats_on_exception("vector store failure")
    ELSE collection_stats(coll, sample)

\* app.get_vector_stats: CollectionStats(**stats) needs total_chunks and
\* collection_name; without them the validation error is HTTP 500
stats_response(outcome) ==
    IF outcome.kind = "raised" THEN HTTP(500, "Failed to get stats: " \o outcome.error)
    ELSE IF {"total_chunks", "collection_name"} \subseteq DOMAIN outcome.value
    THEN HTTP(200, outcome.value)
    ELSE HTTP(500, "Failed to get stats: validation error")

\* GET /api/vector/stats
GetVectorStats(r) ==
    /\ AtRest(r)
    /\ \E ok \in BOOLEAN :
       \E sample \in {[present |-> TRUE, metadata |-> c.metadata] : c \in collection}
                      \cup {[present |-> FALSE]} :
         LET start == [Idle EXCEPT !.op = "stats"]
             outcome == get_collection_stats(collection, sample, ok)
         IN
         /\ sample.present = (collection # {})
         /\ req' = [req EXCEPT ![r] =
               IF ~VECTOR_PIPELINE_AVAILABLE
               THEN [start EXCEPT !.pc = "done",
                                  !.response = HTTP(503, "Vector pipeline not available")]
               ELSE [start EXCEPT !.pc = "done", !.fault = ~ok, !.result = outcome,
                                  !.response = stats_response(outcome)]]
    /\ UNCHANGED <<users, user_sessions, now, VECTOR_PIPELINE_AVAILABLE, GROQ_API_KEY, documents, lastrowid, files,
                   collection>>

\* A direct call of vector_pipeline.process_document with the arguments of
\* a stored document, as the handlers call it.
CallProcessDocument(r) ==
    /\ AtRest(r)
    /\ VECTOR_PIPELINE_AVAILABLE
    /\ \E d \in documents :
         req' = [req EXCEPT ![r] =
            [Idle EXCEPT !.op = "process_document", !.pc = "extract",
                         !.document_id = d.id, !.document = d]]
    /\ UNCHANGED <<users, user_sessions, now, VECTOR_PIPELINE_AVAILABLE, GROQ_API_KEY, documents, lastrowid, files,
                   collection>>

\* A direct call of vector_pipeline.delete_document_chunks, possibly right
\* after another one; "again" notes that the call before it was the same
\* call and returned.
CallDeleteDocumentChunks(r) ==
    /\ AtRest(r) \/ (req[r].pc = "done" /\ req[r].op = "delete_document_chunks")
    /\ VECTOR_PIPELINE_AVAILABLE
    /\ \E document_id \in DocIds :
         req' = [req EXCEPT ![r] =
            [Idle EXCEPT !.op = "delete_document_chunks", !.pc = "del_get",
                         !.document_id = document_id,
                         !.again = /\ req[r].op = "delete_document_chunks"
                                   /\ req[r].pc = "done"
                                   /\ req[r].document_id = document_id
                                   /\ req[r].deleted.kind = "returned"]]
    /\ UNCHANGED <<users, user_sessions, now, VECTOR_PIPELINE_AVAILABLE, GROQ_API_KEY, documents, lastrowid, files,
                   collection>>

\* The response has gone out: the worker takes the next request.
Finish(r) ==
    /\ req[r].pc = "done"
    /\ req' = [req EXCEPT ![r] = Idle]
    /\ UNCHANGED <<users, user_sessions, now, VECTOR_PIPELINE_AVAILABLE, GROQ_API_KEY, documents, lastrowid, files,
                   collection>>

\* ------------------------------------------------- user_manager.py
\* UserRegistration.validate_username: "return v.lower()"
username_lower(username) ==
    CASE username = "Ann" -> "ann"
      [] OTHER -> username

\* The bodies of the register and login requests (UserRegistration): two
\* spellings of one username with two passwords, one email address used
\* for two usernames.
Credentials ==
    {[username |-> "ann", email |-> "ann@x.org", password |-> "password-1"],
     [username |-> "Ann", email |-> "ann2@x.org", password |-> "password-2"],
     [username |-> "bob", email |-> "ann@x.org", password |-> "password-1"]}

\* An optional value: NULL in a column, None as a result; or a value.
Null == [present |-> FALSE]
Some(v) == [present |-> TRUE, value |-> v]

\* _hash_password: SHA-256 of password + salt
hash_password(password, salt) == <<password, salt>>

\* A dict without the key "error", as the manager returns it on success,
\* and with it.
Success(fields) == [success |-> TRUE] @@ fields
Failure(error) == [success |-> FALSE, error |-> error]

\* UserManager.create_user: the result and the users table after the call;
\* any exception (db_ok) is returned as an error.
create_user(us, username, email, password, db_ok) ==
    LET user_id == Cardinality(us) + 1
        salt == user_id
        row == [id |-> user_id, username |-> username, email |-> email,
                password_hash |-> hash_password(password, salt), salt |-> salt,
                is_active |-> TRUE, last_login |-> Null, subscription_tier |-> "free"]
    IN
    IF ~db_ok THEN [res |-> Failure("database is locked"), users |-> us]
    ELSE IF \E u \in us : u.username = username \/ u.email = email
    THEN [res |-> Failure("Username or email already exists"), users |-> us]
    ELSE [res |-> Success([user_id |-> user_id, username |-> username, email |-> email,
                           subscription_tier |-> "free"]),
          users |-> us \cup {row}]

\* The active sessions of a user that were used least recently: the rows
\* "ORDER BY last_activity ASC LIMIT 1" may pick.
oldest_sessions(ss, user_id) ==
    LET active == {x \in ss : x.user_id = user_id /\ x.is_active} IN
    {x \in active : \A y \in active : x.last_activity <= y.last_activity}

\* _create_session, "SELECT COUNT(*) ... WHERE user_id = ? AND is_active = 1"
count_active_sessions(ss, user_id) ==
    Cardinality({x \in ss : x.user_id = user_id /\ x.is_active})

\* _create_session after the count: when the count had reached the session
\* limit one of the oldest active sessions (victim) is deactivated, which
\* SQLite builds without UPDATE ... LIMIT refuse (limit_ok); then the new
\* session is inserted.
insert_session(ss, user_id, time, active_sessions, db_ok, limit_ok, victim) ==
    LET full == active_sessions >= max_sessions_per_user
        evicted == IF full
                   THEN {IF x = victim THEN [x EXCEPT !.is_active = FALSE] ELSE x : x \in ss}
                   ELSE ss
        session_id == Cardinality(ss) + 1
        session_token == session_id
        expires_at == time + session_duration
        row == [id |-> session_id, user_id |-> user_id, session_token |-> session_token,
                expires_at |-> expires_at, last_activity |-> time, is_active |-> TRUE]
    IN
    IF ~db_ok \/ (full /\ ~limit_ok)
    THEN [res |-> Failure("database error"), user_sessions |-> ss]
    ELSE [res |-> Success([session_token |-> session_token, expires_at |-> expires_at]),
          user_sessions |-> evicted \cup {row}]

\* UserManager._create_session in one piece: the count and what follows it
create_session(ss, user_id, time, db_ok, limit_ok, victim) ==
    insert_session(ss, user_id, time, count_active_sessions(ss, user_id), db_ok, limit_ok,
                   victim)

\* Mutant of authenticate_user: the session is created before the password
\* is verified.
authenticate_user_session_first(us, ss, username, password, time, db_ok, session_ok, limit_ok, victim, update_ok) ==
    LET found == {u \in us : u.username = username}
        user == CHOOSE u \in found : TRUE
        session_result == create_session(ss, user.id, time, session_ok, limit_ok, victim)
    IN
    IF ~db_ok
    THEN [res |-> Failure("database is locked"), users |-> us, user_sessions |-> ss]
    ELSE IF found = {}
    THEN [res |-> Failure("Invalid credentials") @@ [status_code |-> 401],
          users |-> us, user_sessions |-> ss]
    ELSE IF ~user.is_active
    THEN [res |-> Failure("Account is deactivated"), users |-> us, user_sessions |-> ss]
    ELSE IF ~session_result.res.success
    THEN [res |-> session_result.res, users |-> us, user_sessions |-> ss]
    ELSE IF hash_password(password, user.salt) # user.password_hash
    THEN [res |-> Failure("Invalid credentials"), users |-> us,
          user_sessions |-> session_result.user_sessions]
    ELSE IF ~update_ok
    THEN [res |-> Failure("database is locked"), users |-> us,
          user_sessions |-> session_result.user_sessions]
    ELSE [res |-> Success([user_id |-> user.id, username |-> user.username,
                           email |-> user.email,
                           subscription_tier |-> user.subscription_tier,
                           session_token |-> session_result.res.session_token,
                           expires_at |-> session_result.res.expires_at]),
          users |-> {IF u = user THEN [u EXCEPT !.last_login = Some(time)] ELSE u : u \in us},
          user_sessions |-> session_result.user_sessions]

\* UserManager.authenticate_user: the result and the two tables after the
\* call.  The session is committed by _create_session before last_login is
\* updated (update_ok).
authenticate_user(us, ss, username, password, time, db_ok, session_ok, limit_ok, victim, update_ok) ==
    LET found == {u \in us : u.username = username}
        user == CHOOSE u \in found : TRUE
        session_result == create_session(ss, user.id, time, session_ok, limit_ok, victim)
    IN
    IF ~db_ok
    THEN [res |-> Failure("database is locked"), users |-> us, user_sessions |-> ss]
    ELSE IF found = {}
    THEN [res |-> Failure("Invalid credentials") @@ [status_code |-> 401],
          users |-> us, user_sessions |-> ss]
    ELSE IF ~user.is_active
    THEN [res |-> Failure("Account is deactivated"), users |-> us, user_sessions |-> ss]
    ELSE IF hash_password(password, user.salt) # user.password_hash
    THEN [res |-> Failure("Invalid credentials"), users |-> us, user_sessions |-> ss]
    ELSE IF ~session_result.res.success
    THEN [res |-> session_result.res, users |-> us, user_sessions |-> ss]
    ELSE IF ~update_ok
    THEN [res |-> Failure("database is locked"), users |-> us,
          user_sessions |-> session_result.user_sessions]
    ELSE [res |-> Success([user_id |-> user.id, username |-> user.username,
                           email |-> user.email,
                           subscription_tier |-> user.subscription_tier,
                           session_token |-> session_result.res.session_token,
                           expires_at |-> session_result.res.expires_at]),
          users |-> {IF u = user THEN [u EXCEPT !.last_login = Some(time)] ELSE u : u \in us},
          user_sessions |-> session_result.user_sessions]

\* Mutant of validate_session: a deactivated session is accepted as well.
validate_session_any(us, ss, session_token, time, db_ok) ==
    LET found == {x \in ss : x.session_token = session_token
                             /\ \E u \in us : u.id = x.user_id}
        session == CHOOSE x \in found : TRUE
        user == CHOOSE u \in us : u.id = session.user_id
    IN
    IF ~db_ok \/ found = {} THEN [res |-> Null, user_sessions |-> ss]
    ELSE IF session.expires_at < time
    THEN [res |-> Null,
          user_sessions |-> {IF x = session THEN [x EXCEPT !.is_active = FALSE] ELSE x : x \in ss}]
    ELSE [res |-> Some([session_id |-> session.id, user_id |-> session.user_id,
                        username |-> user.username, email |-> user.email,
                        subscription_tier |-> user.subscription_tier,
                        expires_at |-> session.expires_at]),
          user_sessions |-> {IF x = session THEN [x EXCEPT !.last_activity = time] ELSE x : x \in ss}]

\* UserManager.validate_session: the user info or None, and the sessions
\* table after the call; an expired session is deactivated, a valid one has
\* its last_activity updated.
validate_session(us, ss, session_token, time, db_ok) ==
    LET found == {x \in ss : x.session_token = session_token /\ x.is_active
                             /\ \E u \in us : u.id = x.user_id}
        session == CHOOSE x \in found : TRUE
        user == CHOOSE u \in us : u.id = session.user_id
    IN
    IF ~db_ok \/ found = {} THEN [res |-> Null, user_sessions |-> ss]
    ELSE IF session.expires_at < time
    THEN [res |-> Null,
          user_sessions |-> {IF x = session THEN [x EXCEPT !.is_active = FALSE] ELSE x : x \in ss}]
    ELSE [res |-> Some([session_id |-> session.id, user_id |-> session.user_id,
                        username |-> user.username, email |-> user.email,
                        subscription_tier |-> user.subscription_tier,
                        expires_at |-> session.expires_at]),
          user_sessions |-> {IF x = session THEN [x EXCEPT !.last_activity = time] ELSE x : x \in ss}]

\* ------------------------------------------------ app.py, the auth endpoints
\* res['key']: the value, or KeyError
subscript(res, key) ==
    IF key \in DOMAIN res THEN Returned(res[key]) ELSE Raised("'" \o key \o "'")

\* "except Exception as e: raise HTTPException(status_code=500, ...)"; an
\* HTTPException raised inside the try is an Exception too.
endpoint_except(outcome, what) ==
    IF outcome.kind = "raised" THEN HTTP(500, what \o outcome.error)
    ELSE HTTP(200, outcome.value)

\* register_user, the body of its try
register_try(res) ==
    LET error == subscript(res, "error")
        user_id == subscript(res, "user_id")
    IN
    IF error.kind = "raised" THEN error
    ELSE IF error.value # EmptyString THEN Raised("400: " \o error.value)
    ELSE IF user_id.kind = "raised" THEN user_id
    ELSE Returned([message |-> "User registered successfully", user_id |-> user_id.value])

\* login_user, the body of its try
login_try(res) ==
    LET error == subscript(res, "error")
        status_code == subscript(res, "status_code")
        user == subscript(res, "user")
    IN
    IF error.kind = "raised" THEN error
    ELSE IF error.value # EmptyString /\ status_code.kind = "raised" THEN status_code
    ELSE IF error.value # EmptyString /\ status_code.value = 401
    THEN Raised("401: " \o error.value)
    ELSE IF error.value # EmptyString THEN Raised("500: " \o error.value)
    ELSE IF user.kind = "raised" THEN user
    ELSE Returned([success |-> TRUE, user |-> user.value,
                   session_token |-> res.session_token, expires_at |-> res.expires_at])

\* get_user_profile, the body of its try
profile_try(res) ==
    IF ~res.present THEN Raised("401: Invalid session token") ELSE Returned(res.value)

\* The fields response_model=UserResponse requires of the returned value
UserResponseFields ==
    {"id", "username", "email", "created_at", "last_login", "is_active", "total_documents",
     "total_llm_calls", "total_tokens_processed", "subscription_tier", "api_quota",
     "api_quota_reset_date"}

\* get_user_profile: the returned value is validated against UserResponse
\* after the handler has returned; a value that does not fit is HTTP 500
profile_response(outcome) ==
    LET response == endpoint_except(outcome, "Failed to retrieve profile: ") IN
    IF response.status = 200 /\ ~(UserResponseFields \subseteq DOMAIN response.body)
    THEN HTTP(500, "Internal Server Error")
    ELSE response

\* POST /api/auth/register
RegisterUser(r) ==
    /\ AtRest(r)
    /\ \E user \in Credentials, db_ok \in BOOLEAN :
         LET username == username_lower(user.username)
             created == create_user(users, username, user.email, user.password, db_ok)
         IN
         /\ users' = created.users
         /\ req' = [req EXCEPT ![r] =
               [Idle EXCEPT !.op = "register", !.pc = "done",
                            !.user = [user EXCEPT !.username = username],
                            !.fault = ~db_ok,
                            !.rows_before = Cardinality(users),
                            !.fresh = ~\E u \in users :
                                          u.username = username \/ u.email = user.email,
                            !.result = Returned(created.res),
                            !.response = endpoint_except(register_try(created.res),
                                                         "Registration failed: ")]]
    /\ UNCHANGED <<user_sessions, now, VECTOR_PIPELINE_AVAILABLE, GROQ_API_KEY, documents,
                   lastrowid, files, collection>>

\* POST /api/auth/login
LoginUser(r) ==
    /\ AtRest(r)
    /\ Cardinality(user_sessions) < MaxSessions
    /\ \E user \in Credentials, db_ok, session_ok, limit_ok, update_ok \in BOOLEAN :
         LET username == username_lower(user.username)
             owner == {u.id : u \in {v \in users : v.username = username}}
             victims == UNION {oldest_sessions(user_sessions, id) : id \in owner}
         IN
         \E victim \in IF victims = {} THEN {Null} ELSE victims :
            LET logged == authenticate_user(users, user_sessions, username, user.password,
                                            now, db_ok, session_ok, limit_ok, victim,
                                            update_ok)
            IN
            /\ users' = logged.users
            /\ user_sessions' = logged.user_sessions
            /\ req' = [req EXCEPT ![r] =
                  [Idle EXCEPT !.op = "login", !.pc = "done",
                               !.user = [user EXCEPT !.username = username],
                               !.fault = ~db_ok \/ ~session_ok \/ ~update_ok,
                               !.rows_before = Cardinality(user_sessions),
                               !.correct = \E u \in users :
                                              /\ u.username = username
                                              /\ u.is_active
                                              /\ u.password_hash =
                                                    hash_password(user.password, u.salt),
                               !.result = Returned(logged.res),
                               !.response = endpoint_except(login_try(logged.res),
                                                            "Login failed: ")]]
    /\ UNCHANGED <<now, VECTOR_PIPELINE_AVAILABLE, GROQ_API_KEY, documents, lastrowid, files,
                   collection>>

\* GET /api/auth/profile
GetUserProfile(r) ==
    /\ AtRest(r)
    /\ \E session_token \in 0..MaxSessions, db_ok \in BOOLEAN :
         LET validated == validate_session(users, user_sessions, session_token, now, db_ok) IN
         /\ user_sessions' = validated.user_sessions
         /\ req' = [req EXCEPT ![r] =
               [Idle EXCEPT !.op = "profile", !.pc = "done",
                            !.session_token = session_token,
                            !.fault = ~db_ok,
                            !.result = Returned(validated.res),
                            !.response = profile_response(profile_try(validated.res))]]
    /\ UNCHANGED <<users, now, VECTOR_PIPELINE_AVAILABLE, GROQ_API_KEY, documents, lastrowid,
                   files, collection>>

\* UserManager.logout_user: True and the sessions table with the session
\* deactivated; False when no active session has the token or the
\* database fails.
logout_user(ss, session_token, db_ok) ==
    IF ~db_ok \/ ~\E x \in ss : x.session_token = session_token /\ x.is_active
    THEN [res |-> FALSE, user_sessions |-> ss]
    ELSE [res |-> TRUE,
          user_sessions |-> {IF x.session_token = session_token
                             THEN [x EXCEPT !.is_active = FALSE] ELSE x : x \in ss}]

\* UserManager.cleanup_expired_sessions: the active sessions whose
\* expires_at lies before now are deactivated; their number is returned,
\* 0 when the database fails.
cleanup_expired_sessions(ss, time, db_ok) ==
    LET expired == {x \in ss : x.expires_at < time /\ x.is_active} IN
    IF ~db_ok THEN [res |-> 0, user_sessions |-> ss]
    ELSE [res |-> Cardinality(expired),
          user_sessions |-> {IF x \in expired THEN [x EXCEPT !.is_active = FALSE] ELSE x
                                : x \in ss}]

\* dict.get(key, default)
dict_get(d, key, default) == IF key \in DOMAIN d THEN d[key] ELSE default

\* auth_dependencies.get_current_user after validate_session: no
\* credentials and no session are HTTP 401, otherwise the session info
get_current_user(credentials, session_info) ==
    IF ~credentials.present THEN Raised("401: Authentication required")
    ELSE IF ~session_info.present THEN Raised("401: Invalid or expired session")
    ELSE Returned(session_info.value)

\* auth_dependencies.get_current_active_user: the session info of
\* get_current_user passes when its "is_active" is true
get_current_active_user(current_user) ==
    IF current_user.kind = "raised" THEN current_user
    ELSE IF ~dict_get(current_user.value, "is_active", FALSE)
    THEN Raised("403: Account is deactivated")
    ELSE current_user

\* The response of an endpoint that depends on get_current_active_user and
\* returns the user it was given.
dependency_response(outcome) ==
    IF outcome.kind = "returned" THEN HTTP(200, outcome.value)
    ELSE IF outcome.error = "403: Account is deactivated" THEN HTTP(403, outcome.error)
    ELSE HTTP(401, outcome.error)

\* A call of user_manager.logout_user, with the token of one of the first
\* MaxSessions sessions or with a token no session has (0)
LogoutUser(r) ==
    /\ AtRest(r)
    /\ \E session_token \in 0..MaxSessions, db_ok \in BOOLEAN :
         LET logged_out == logout_user(user_sessions, session_token, db_ok) IN
         /\ user_sessions' = logged_out.user_sessions
         /\ req' = [req EXCEPT ![r] =
               [Idle EXCEPT !.op = "logout", !.pc = "done",
                            !.session_token = session_token,
                            !.fault = ~db_ok,
                            !.result = Returned(logged_out.res)]]
    /\ UNCHANGED <<users, now, VECTOR_PIPELINE_AVAILABLE, GROQ_API_KEY, documents, lastrowid,
                   files, collection>>

\* A call of user_manager.cleanup_expired_sessions
CleanupExpiredSessions(r) ==
    /\ AtRest(r)
    /\ \E db_ok \in BOOLEAN :
         LET cleaned == cleanup_expired_sessions(user_sessions, now, db_ok) IN
         /\ user_sessions' = cleaned.user_sessions
         /\ req' = [req EXCEPT ![r] =
               [Idle EXCEPT !.op = "cleanup", !.pc = "done",
                            !.fault = ~db_ok,
                            !.result = Returned(cleaned.res)]]
    /\ UNCHANGED <<users, now, VECTOR_PIPELINE_AVAILABLE, GROQ_API_KEY, documents, lastrowid,
                   files, collection>>

\* A request to an endpoint behind Depends(get_current_active_user), with
\* or without a bearer token; "result" keeps what validate_session returned.
GetCurrentActiveUser(r) ==
    /\ AtRest(r)
    /\ \E credentials \in {Null} \cup {Some(t) : t \in 0..MaxSessions}, db_ok \in BOOLEAN :
         LET session_token == IF credentials.present THEN credentials.value ELSE 0
             validated == IF credentials.present
                          THEN validate_session(users, user_sessions, session_token, now, db_ok)
                          ELSE [res |-> Null, user_sessions |-> user_sessions]
             outcome == get_current_active_user(get_current_user(credentials, validated.res))
         IN
         /\ user_sessions' = validated.user_sessions
         /\ req' = [req EXCEPT ![r] =
               [Idle EXCEPT !.op = "current_active_user", !.pc = "done",
                            !.session_token = session_token,
                            !.fault = ~db_ok,
                            !.result = Returned(validated.res),
                            !.response = dependency_response(outcome)]]
    /\ UNCHANGED <<users, now, VECTOR_PIPELINE_AVAILABLE, GROQ_API_KEY, documents, lastrowid,
                   files, collection>>

\* No code of the repository clears users.is_active: an account is
\* deactivated by an UPDATE of the users table from outside the application.
DeactivateAccount ==
    /\ \E u \in users :
         /\ u.is_active
         /\ users' = (users \ {u}) \cup {[u EXCEPT !.is_active = FALSE]}
    /\ UNCHANGED <<user_sessions, now, VECTOR_PIPELINE_AVAILABLE, GROQ_API_KEY, documents,
                   lastrowid, files, collection, req>>

\* Time passes.
Tick ==
    /\ now + HoursPerTick <= MaxTime
    /\ now' = now + HoursPerTick
    /\ UNCHANGED <<users, user_sessions, VECTOR_PIPELINE_AVAILABLE, GROQ_API_KEY, documents,
                   lastrowid, files, collection, req>>

\* --------------------------------------------------- the specification
Step(r) ==
    \/ Finish(r)
    \/ UploadDocument(r)
    \/ ExtractChunkEmbed(r)
    \/ StoreChunk(r)
    \/ ReprocessDocument(r)
    \/ DeleteDocument(r)
    \/ DeleteGetIds(r)
    \/ DeleteIds(r)
    \/ DeleteRow(r)
    \/ SearchDocuments(r)
    \/ GetDocumentChunks(r)
    \/ GetVectorStats(r)
    \/ CallProcessDocument(r)
    \/ CallDeleteDocumentChunks(r)

\* One event loop: one request at a time.
Next == \E r \in SerialSlots : Step(r)

Spec == Init /\ [][Next]_vars

\* The bulk upload endpoint and the pipeline steps it runs.
StepBulk(r) ==
    \/ Finish(r)
    \/ UploadMultipleDocuments(r)
    \/ BulkFile(r)
    \/ ExtractChunkEmbed(r)
    \/ StoreChunk(r)

NextBulk == \E r \in SerialSlots : StepBulk(r)

SpecBulk == Init /\ [][NextBulk]_vars

\* The endpoints of the user accounts, and the clock.
StepAuth(r) ==
    \/ Finish(r)
    \/ RegisterUser(r)
    \/ LoginUser(r)
    \/ GetUserProfile(r)
    \/ GetCurrentActiveUser(r)

NextAuth ==
    \/ \E r \in SerialSlots : StepAuth(r)
    \/ Tick
    \/ DeactivateAccount

\* The accounts do not depend on the vector pipeline: it is up.
InitAuth == Init /\ VECTOR_PIPELINE_AVAILABLE /\ GROQ_API_KEY

SpecAuth == InitAuth /\ [][NextAuth]_vars

\* Two worker processes over the same database and the same collection
\* (uvicorn app:app --workers 2): w1 serves a client that uploads and
\* reprocesses, w2 one that reads.  Inside a worker the requests run one at a
\* time; between the workers every call of the store is a step of its own.
StepWriter(r) ==
    \/ Finish(r)
    \/ UploadDocument(r)
    \/ ReprocessDocument(r)
    \/ DeleteGetIds(r)
    \/ DeleteIds(r)
    \/ ExtractChunkEmbed(r)
    \/ StoreChunk(r)

StepReader(r) ==
    \/ Finish(r)
    \/ GetDocumentChunks(r)

NextConcurrent ==
    \/ StepWriter("w1")
    \/ StepReader("w2")

\* Reads and writes meet in the store only when the pipeline is up.
InitConcurrent == Init /\ VECTOR_PIPELINE_AVAILABLE /\ GROQ_API_KEY

SpecConcurrent == InitConcurrent /\ [][NextConcurrent]_vars

\* The text extractor on its own: a file of any of the formats under a name
\* with any of the extensions, and a call of _extract_text_from_file for it
\* with any of the content types, as a caller of the pipeline may make it.
Extensions == {".txt", ".md", ".pdf", ".docx", ".png", ".dat"}

Formats == {"plain", "markdown", "pdf", "docx", "image"}

ContentTypes ==
    {"text/plain", "text/markdown", "application/pdf", DOCX_TYPE, "image/png",
     "application/octet-stream"}

InitExtract ==
    /\ VECTOR_PIPELINE_AVAILABLE = TRUE
    /\ GROQ_API_KEY = TRUE
    /\ documents = {}
    /\ lastrowid = 0
    /\ \E ext \in Extensions, format \in Formats :
          files = ([no |-> 1, ext |-> ext] :> FileOf(format, 1))
    /\ collection = {}
    /\ users = {}
    /\ user_sessions = {}
    /\ now = 0
    /\ req = [r \in Slots |-> Idle]

\* vector_pipeline._extract_text_from_file(file_path, content_type)
CallExtractTextFromFile(r) ==
    /\ AtRest(r)
    /\ \E file_path \in DOMAIN files, content_type \in ContentTypes :
       \E env \in EnvironmentsFor(file_path, content_type) :
         req' = [req EXCEPT ![r] =
            [Idle EXCEPT !.op = "extract_text", !.pc = "done",
                         !.document = [id |-> 0, file_path |-> file_path,
                                       content_type |-> content_type],
                         !.extractor = extractor_for(file_path, content_type),
                         !.env = env,
                         !.text = extract_text_from_file(file_path, content_type, files,
                                                         GROQ_API_KEY, env)]]
    /\ UNCHANGED <<users, user_sessions, now, VECTOR_PIPELINE_AVAILABLE, GROQ_API_KEY,
                   documents, lastrowid, files, collection>>

StepExtract(r) ==
    \/ Finish(r)
    \/ CallExtractTextFromFile(r)

NextExtract == \E r \in SerialSlots : StepExtract(r)

SpecExtract == InitExtract /\ [][NextExtract]_vars

\* ------------------------------------------ the sessions of one account
\* authenticate_user up to the count of _create_session: the reads.  The
\* SELECT statements run outside a transaction, so what another worker
\* commits after them is not seen by them.
LoginAuthenticate(r) ==
    /\ AtRest(r)
    /\ Cardinality(user_sessions)
          + Cardinality({w \in Slots : req[w].pc = "create_session"}) < MaxLogins
    /\ \E username \in {"ann", "bob"}, password \in {"password-1", "password-2"},
          db_ok \in BOOLEAN :
         LET found == {u \in users : u.username = username}
             user == CHOOSE u \in found : TRUE
             start == [Idle EXCEPT !.op = "login",
                                   !.user = [username |-> username, password |-> password],
                                   !.fault = ~db_ok,
                                   !.rows_before = Cardinality(user_sessions),
                                   !.correct = \E u \in found :
                                       /\ u.is_active
                                       /\ u.password_hash = hash_password(password, u.salt)]
             failed(res) == [start EXCEPT !.pc = "done", !.result = Returned(res)]
         IN
         req' = [req EXCEPT ![r] =
            IF ~db_ok THEN failed(Failure("database is locked"))
            ELSE IF found = {}
            THEN failed(Failure("Invalid credentials") @@ [status_code |-> 401])
            ELSE IF ~user.is_active THEN failed(Failure("Account is deactivated"))
            ELSE IF hash_password(password, user.salt) # user.password_hash
            THEN failed(Failure("Invalid credentials"))
            ELSE [start EXCEPT !.pc = "create_session",
                               !.document_id = user.id,
                               !.active_sessions =
                                   count_active_sessions(user_sessions, user.id)]]
    /\ UNCHANGED <<users, user_sessions, now, VECTOR_PIPELINE_AVAILABLE, GROQ_API_KEY,
                   documents, lastrowid, files, collection>>

\* authenticate_user from the writes of _create_session on: the eviction
\* that the count calls for, the new session, last_login.
LoginCreateSession(r) ==
    /\ req[r].pc = "create_session"
    /\ \E session_ok, limit_ok, update_ok \in BOOLEAN :
         LET rq == req[r]
             user == CHOOSE u \in users : u.id = rq.document_id
             victims == oldest_sessions(user_sessions, user.id)
         IN
         \E victim \in IF victims = {} THEN {Null} ELSE victims :
            LET session_result == insert_session(user_sessions, user.id, now,
                                                 rq.active_sessions, session_ok, limit_ok,
                                                 victim)
                res == IF ~session_result.res.success THEN session_result.res
                       ELSE IF ~update_ok THEN Failure("database is locked")
                       ELSE Success([user_id |-> user.id, username |-> user.username,
                                     email |-> user.email,
                                     subscription_tier |-> user.subscription_tier,
                                     session_token |-> session_result.res.session_token,
                                     expires_at |-> session_result.res.expires_at])
            IN
            /\ user_sessions' = session_result.user_sessions
            /\ users' = IF res.success
                        THEN {IF u = user THEN [u EXCEPT !.last_login = Some(now)] ELSE u
                                 : u \in users}
                        ELSE users
            /\ req' = [req EXCEPT ![r] =
                  [rq EXCEPT !.pc = "done",
                             !.fault = ~session_ok \/ ~update_ok,
                             !.result = Returned(res)]]
    /\ UNCHANGED <<now, VECTOR_PIPELINE_AVAILABLE, GROQ_API_KEY, documents, lastrowid, files,
                   collection>>

\* The account of ann has been registered.
InitSessions ==
    /\ VECTOR_PIPELINE_AVAILABLE = TRUE
    /\ GROQ_API_KEY = TRUE
    /\ documents = {}
    /\ lastrowid = 0
    /\ files = <<>>
    /\ collection = {}
    /\ users = create_user({}, "ann", "ann@x.org", "password-1", TRUE).users
    /\ user_sessions = {}
    /\ now = 0
    /\ req = [r \in Slots |-> Idle]

StepSessions(r) ==
    \/ Finish(r)
    \/ LoginAuthenticate(r)
    \/ LoginCreateSession(r)
    \/ LogoutUser(r)
    \/ GetUserProfile(r)
    \/ CleanupExpiredSessions(r)

\* Two worker processes on the same database, within the hour: no session
\* expires.
NextSessions == \E r \in Slots : StepSessions(r)

SpecSessions == InitSessions /\ [][NextSessions]_vars

\* One event loop and the clock: the sessions of the account are created,
\* used, logged out, evicted at the limit, and they expire.
NextSessionLimit ==
    \/ \E r \in SerialSlots : StepSessions(r)
    \/ Tick

SpecSessionLimit == InitSessions /\ [][NextSessionLimit]_vars

\* ------------------------------------------------------------ claims
Done(r, op) == req[r].pc = "done" /\ req[r].op = op

\* The request r has called process_document and the call has ended.
ProcessEnded(r) == req[r].pc = "done" /\ req[r].processed.kind # "none"

\* C1: when process_document returns status "processed", total_chunks is the
\* number of chunk_ids, the number of chunks the collection holds for the
\* document, and the total_chunks of each of these chunks.
C1_TotalChunksAgree ==
    \A r \in Slots :
        (ProcessEnded(r) /\ req[r].processed.kind = "returned"
            /\ req[r].processed.value.status = "processed") =>
        LET result == req[r].processed.value
            stored == collection_get(collection, result.document_id)
        IN /\ result.total_chunks = Len(result.chunk_ids)
           /\ result.total_chunks = Cardinality(stored)
           /\ \A c \in stored : c.metadata.total_chunks = result.total_chunks

C1_Witness ==
    \E r \in Slots :
        /\ ProcessEnded(r)
        /\ req[r].processed.kind = "returned"
        /\ req[r].processed.value.status = "processed"
        /\ req[r].processed.value.total_chunks >= 2

\* C2: get_document_chunks for a document with at least one stored chunk
\* returns all its chunks with chunk_index 0, 1, ..., n-1 in this order,
\* whatever uploads, reprocessings and deletions came before.
C2_ChunksDenseAscending ==
    \A r \in Slots :
        (Done(r, "chunks") /\ req[r].result.kind = "returned") =>
        LET chunks == req[r].result.value IN
        /\ Len(chunks) = Cardinality(collection_get(collection, req[r].document_id))
        /\ \A j \in 1..Len(chunks) : chunks[j].metadata.chunk_index = j - 1

C2_Witness ==
    \E r \in Slots :
        /\ Done(r, "chunks")
        /\ req[r].result.kind = "returned"
        /\ Len(req[r].result.value) >= 2

\* The files process_document cannot extract text from: a type no branch of
\* the extractor takes, bytes that do not decode, an image without the key.
Unextractable(d) ==
    \/ extractor_for(d.file_path, d.content_type) = "none"
    \/ d.file_path \notin DOMAIN files
    \/ ~files[d.file_path].readable
    \/ (extractor_for(d.file_path, d.content_type) = "image" /\ ~GROQ_API_KEY)

\* C3: when text extraction fails in process_document (an unsupported
\* content type included), the call returns status "error" with an error
\* message, never chunks, embeds or stores, and the collection holds no
\* chunk of the document.
C3_ExtractionFailureStoresNothing ==
    \A r \in Slots :
        (ProcessEnded(r) /\ (Unextractable(req[r].document) \/ req[r].text.kind = "raised")) =>
        /\ req[r].processed.kind = "returned"
        /\ req[r].processed.value.status = "error"
        /\ req[r].processed.value.error # EmptyString
        /\ req[r].chunks = <<>> /\ req[r].chunk_ids = <<>>
        /\ collection_get(collection, req[r].document_id) = {}

C3_Witness ==
    \E r \in Slots :
        /\ Done(r, "process_document")
        /\ req[r].document.content_type = "audio/mpeg"
        /\ req[r].processed.kind = "returned"
        /\ req[r].processed.value.status = "error"

\* C4: process_document never raises: whatever fails in extraction,
\* embedding or storing, the call returns a result whose status is
\* "processed" or "error", the latter with an error message.
C4_ProcessNeverRaises ==
    \A r \in Slots :
        /\ req[r].processed.kind # "raised"
        /\ (Done(r, "process_document") => req[r].processed.kind = "returned")
        /\ (req[r].pc = "done" /\ req[r].fault /\ req[r].op \in {"upload", "process_document"}) =>
              (req[r].processed.kind = "returned" /\ req[r].processed.value.status = "error")
        /\ req[r].processed.kind = "returned" =>
              /\ req[r].processed.value.status \in {"processed", "error"}
              /\ req[r].processed.value.status = "error" =>
                    req[r].processed.value.error # EmptyString

C4_Witness ==
    \E r \in Slots :
        /\ Done(r, "process_document")
        /\ req[r].fault
        /\ req[r].chunk_ids # <<>>
        /\ req[r].processed.kind = "returned"
        /\ req[r].processed.value.status = "error"

\* C5: an upload whose file was saved and whose row was created answers 200
\* and its row is in the documents table when it answers, whether the vector
\* processing was skipped, succeeded or failed.
C5_UploadKeepsRecord ==
    \A r \in Slots :
        (Done(r, "upload") /\ req[r].document_id # 0) =>
        /\ req[r].response.status = 200
        /\ req[r].document \in documents
        /\ req[r].response.body.document = req[r].document
        /\ req[r].document.file_path \in DOMAIN files

C5_Witness ==
    \E r \in Slots :
        /\ Done(r, "upload")
        /\ req[r].response.status = 200
        /\ req[r].processed.kind = "returned"
        /\ req[r].processed.value.status = "error"
        /\ req[r].document \in documents

\* C6: when DELETE /api/documents/{id} answers with its success message, the
\* collection holds no chunk of the document, and its row and file are gone.
C6_DeleteRemovesChunks ==
    \A r \in Slots :
        (Done(r, "delete_document") /\ req[r].response.status = 200) =>
        /\ collection_get(collection, req[r].document_id) = {}
        /\ \A d \in documents : d.id # req[r].document_id
        /\ req[r].document.file_path \notin DOMAIN files

\* C7: delete_document_chunks, the store not failing, returns True and
\* leaves no chunk of the document; called again right after, it finds no
\* chunk and returns True again; so it does for a document without chunks.
C7_DeleteChunksIdempotent ==
    \A r \in Slots :
        (Done(r, "delete_document_chunks") /\ ~req[r].fault) =>
        /\ req[r].deleted = Returned(TRUE)
        /\ collection_get(collection, req[r].document_id) = {}
        /\ req[r].again => req[r].ids = {}

C7_Witness ==
    \E r \in Slots :
        /\ Done(r, "delete_document_chunks")
        /\ ~req[r].fault
        /\ req[r].again
        /\ req[r].ids = {}
        /\ req[r].deleted = Returned(TRUE)

\* C8: search_documents returns at most n_results results, in the store's
\* ascending order of distance (the scores never increase), each score
\* being 1 minus the distance the store reported for that chunk.
C8_SearchOrderedScores ==
    \A r \in Slots :
        (Done(r, "search") /\ req[r].result.kind = "returned") =>
        LET results == req[r].result.value
            rows == req[r].rows
        IN /\ Len(results) <= req[r].n_results
           /\ Len(results) = Len(rows)
           /\ \A j \in 1..Len(results) :
                 /\ results[j].chunk_id = rows[j].id
                 /\ results[j].similarity_score = 1 - rows[j].distance
           /\ \A j, k \in 1..Len(results) :
                 j < k => results[j].similarity_score >= results[k].similarity_score

C8_Witness ==
    \E r \in Slots :
        /\ Done(r, "search")
        /\ req[r].result.kind = "returned"
        /\ Len(req[r].result.value) = 2
        /\ req[r].result.value[1].similarity_score = 1
        /\ req[r].result.value[2].similarity_score = -1

\* C9: a search of an empty collection (model and store not failing, at
\* least one result asked for) returns the empty sequence and answers 200.
C9_EmptySearch ==
    \A r \in Slots :
        (Done(r, "search") /\ VECTOR_PIPELINE_AVAILABLE /\ ~req[r].fault
            /\ req[r].n_results >= 1 /\ req[r].rows = <<>>) =>
        /\ req[r].result = Returned(<<>>)
        /\ req[r].response = HTTP(200, <<>>)

C9_Witness ==
    \E r \in Slots :
        /\ Done(r, "search")
        /\ collection = {}
        /\ ~req[r].fault
        /\ req[r].n_results >= 1
        /\ req[r].result = Returned(<<>>)

C11_TooManyFilesRejected ==
    [][\A r \in Slots :
          (req'[r].op = "upload_multiple" /\ Len(req'[r].bulk_files) > 10) =>
          /\ req'[r].pc = "done"
          /\ req'[r].response.status = 400
          /\ req'[r].uploaded_documents = <<>>
          /\ UNCHANGED <<documents, lastrowid, files, collection>>]_vars

C11_Witness ==
    \E r \in Slots :
        /\ Done(r, "upload_multiple")
        /\ Len(req[r].bulk_files) = 11
        /\ req[r].response.status = 400
        /\ documents = {} /\ collection = {} /\ DOMAIN files = {}

\* C12: a bulk upload of 1 to 10 files answers 200 after a turn for every
\* file: uploaded_count is the number of documents returned, uploaded_count
\* plus the number of errors is the number of files, every file without a
\* name is among the errors, and the documents are rows of the table in the
\* order of the request (ascending ids, each named after a file of the
\* request).
C12_BulkCollectsFailures ==
    \A r \in Slots :
        (Done(r, "upload_multiple") /\ Len(req[r].bulk_files) \in 1..10) =>
        LET body == req[r].response.body
            file_list == req[r].bulk_files
            unnamed == {j \in 1..Len(file_list) : file_list[j].filename = NoFilename}
        IN /\ req[r].response.status = 200
           /\ req[r].k = Len(file_list)
           /\ body.uploaded_count = Len(body.documents)
           /\ body.uploaded_count + Len(body.errors) = Len(file_list)
           /\ Cardinality(unnamed) <= Len(body.errors)
           /\ \A j \in 1..Len(body.documents) :
                 /\ body.documents[j].document \in documents
                 /\ \E i \in 1..Len(file_list) :
                       body.documents[j].document.original_filename = file_list[i].filename
           /\ \A i, j \in 1..Len(body.documents) :
                 i < j => body.documents[i].document.id < body.documents[j].document.id

C12_Witness ==
    \E r \in Slots :
        /\ Done(r, "upload_multiple")
        /\ Len(req[r].bulk_files) = 3
        /\ Len(req[r].errors) = 2
        /\ req[r].errors[1].error = "No space left on device"
        /\ req[r].response.body.uploaded_count = 1

\* C13: in every state of the collection no two chunks share an id, and the
\* id of each chunk is "{document_id}_{chunk_index}" of its own metadata.
C13_ChunkIdsUnique ==
    /\ \A c1, c2 \in collection : c1.id = c2.id => c1 = c2
    /\ \A c \in collection :
          c.id = ToString(c.metadata.document_id) \o "_" \o ToString(c.metadata.chunk_index)

C13_Witness ==
    /\ \E c1, c2 \in collection :
          /\ c1.metadata.document_id # c2.metadata.document_id
          /\ c1.metadata.chunk_index = c2.metadata.chunk_index
    /\ Cardinality(collection) >= 3

\* C14: when the extracted text gives no chunk (and the embedding model does
\* not fail), process_document returns status "processed" with
\* total_chunks = 0, total_tokens = 0 and no chunk id, and the collection
\* holds no chunk of the document.
C14_NoChunksProcessed ==
    \A r \in Slots :
        (ProcessEnded(r) /\ req[r].text.kind = "returned" /\ req[r].text.value = <<>>
            /\ ~req[r].fault) =>
        /\ req[r].processed.kind = "returned"
        /\ req[r].processed.value.status = "processed"
        /\ req[r].processed.value.total_chunks = 0
        /\ req[r].processed.value.total_tokens = 0
        /\ req[r].processed.value.chunk_ids = <<>>
        /\ collection_get(collection, req[r].document_id) = {}

C14_Witness ==
    \E r \in Slots :
        /\ Done(r, "upload")
        /\ req[r].text = Returned(<<>>)
        /\ req[r].processed.kind = "returned"
        /\ req[r].processed.value.status = "processed"
        /\ req[r].processed.value.total_chunks = 0

C16_ImageWithoutKeyProcessed ==
    \A r \in Slots :
        (/\ ProcessEnded(r)
         /\ startswith_image(req[r].document.content_type)
         /\ req[r].document.file_path \in DOMAIN files
         /\ files[req[r].document.file_path].readable
         /\ ~GROQ_API_KEY
         /\ ~req[r].fault) =>
        /\ req[r].processed.kind = "returned"
        /\ req[r].processed.value.status = "processed"

\* C17: a register request whose username and email are not in use (the
\* database not failing) is answered 200 with the id of the one user row it
\* created, and a register request that is not answered 200 created no row.
C17_RegisterSucceeds ==
    \A r \in Slots :
        Done(r, "register") =>
        /\ (req[r].fresh /\ ~req[r].fault) =>
              /\ req[r].response.status = 200
              /\ Cardinality(users) = req[r].rows_before + 1
              /\ \E u \in users : /\ u.username = req[r].user.username
                                  /\ u.id = req[r].response.body.user_id
        /\ req[r].response.status # 200 => Cardinality(users) = req[r].rows_before

\* C18: a login request with the username and password of an active user
\* (the database not failing) is answered 200 with a session token and its
\* expiry time, and validate_session accepts the token.
C18_LoginSucceeds ==
    \A r \in Slots :
        (Done(r, "login") /\ req[r].correct /\ ~req[r].fault) =>
        /\ req[r].response.status = 200
        /\ req[r].response.body.success
        /\ \E x \in user_sessions :
              /\ x.session_token = req[r].response.body.session_token
              /\ x.expires_at = req[r].response.body.expires_at
        /\ validate_session(users, user_sessions, req[r].response.body.session_token,
                            now, TRUE).res.present

\* C19: when collection.add fails for chunk k of a run of process_document,
\* the call returns status "error" and the chunks 0..k-1 the run stored are
\* still in the collection.
C19_PartialStoreKept ==
    \A r \in Slots :
        (ProcessEnded(r) /\ req[r].fault /\ req[r].chunk_ids # <<>>) =>
        /\ req[r].processed.kind = "returned"
        /\ req[r].processed.value.status = "error"
        /\ \A j \in 1..(Len(req[r].chunk_ids) - 1) :
              \E c \in collection :
                 /\ c.id = req[r].chunk_ids[j]
                 /\ c.metadata.document_id = req[r].document_id
                 /\ c.metadata.chunk_index = j - 1

C19_Witness ==
    \E r \in Slots :
        /\ ProcessEnded(r)
        /\ req[r].fault
        /\ Len(req[r].chunk_ids) = 2
        /\ req[r].processed.value.status = "error"
        /\ Cardinality(collection_get(collection, req[r].document_id)) = 1

\* C20: when a reprocess request has answered with the result of its
\* processing run, the chunks the collection holds for the document are
\* exactly the chunks that run stored: all of them when the run ended
\* "processed", those before the failing one when it ended "error".
C20_ReprocessReplaces ==
    \A r \in Slots :
        (Done(r, "reprocess") /\ req[r].response.status = 200) =>
        LET result == req[r].processed.value
            ids == req[r].chunk_ids
            kept == IF result.status = "processed" THEN Len(ids) ELSE Len(ids) - 1
            stored == collection_get(collection, req[r].document_id)
        IN /\ {c.id : c \in stored} = {ids[j] : j \in 1..kept}
           /\ \A c \in stored : c.document = req[r].chunks[c.metadata.chunk_index + 1]
           /\ result.status = "processed" => Cardinality(stored) = result.total_chunks

C20_Witness ==
    \E r \in Slots :
        /\ Done(r, "reprocess")
        /\ req[r].response.status = 200
        /\ req[r].processed.value.status = "processed"
        /\ req[r].processed.value.total_chunks = 2
        /\ Cardinality(req[r].ids) = 1

\* C23: a call of delete_document_chunks that returns takes out of the
\* collection all the chunks whose metadata.document_id is the id it was
\* called with and no other chunk: every other entry is kept as it was and
\* the count goes down by the number of chunks the document had.  Until it
\* returns, the call leaves the collection alone.
C23_DeleteChunksFrame ==
    [][\A r \in Slots :
          LET id == req[r].document_id
              had == {c \in collection : c.metadata.document_id = id}
          IN
          /\ (req[r].pc \in {"del_get", "del_delete"} /\ req'[r].deleted.kind = "returned")
                => /\ collection' = collection \ had
                   /\ \A c \in collection' : c.metadata.document_id # id
                   /\ Cardinality(collection') = Cardinality(collection) - Cardinality(had)
          /\ (req[r].pc = "del_get" /\ req'[r].deleted.kind # "returned")
                => collection' = collection]_vars

\* A call has removed the chunks of one document while the collection holds
\* the chunks of another.
C23_Witness ==
    \E r \in Slots :
       /\ Done(r, "delete_document_chunks")
       /\ req[r].deleted.kind = "returned"
       /\ req[r].ids # {}
       /\ collection # {}
       /\ \A c \in collection : c.metadata.document_id # req[r].document_id

\* C26: no metadata record in the collection holds None: the description of
\* a document uploaded without one is stored as the empty string, the
\* content type and the file name are present and the other fields are
\* numbers, for every chunk of every processing run.
C26_NoNoneInMetadata ==
    \A c \in collection :
       /\ c.metadata.description # None
       /\ c.metadata.content_type # None
       /\ c.metadata.original_filename # NoFilename
       /\ {c.metadata.document_id, c.metadata.chunk_index, c.metadata.chunk_size,
           c.metadata.total_chunks} \subseteq Nat

\* A chunk of a document that was uploaded without a description is stored
\* with the empty string as its description.
C26_Witness ==
    \E c \in collection : \E d \in documents :
       /\ d.id = c.metadata.document_id
       /\ d.description = None
       /\ c.metadata.description = EmptyString

\* C21: nothing keeps a read of a document's chunks apart from a reprocess of
\* the same document that another worker runs.  A get_document_chunks that
\* reads the store after the reprocess has deleted the old chunks and before
\* it has stored the first new one returns the empty list; one that reads
\* during the store loop returns the chunks stored so far, the first i of the
\* new run, and not the whole set.
C21_ReadSeesReprocessInProgress ==
    \A r \in Slots :
       (Done(r, "chunks") /\ req[r].result.kind = "returned") =>
       LET chunks == req[r].result.value IN
       \A m \in req[r].meanwhile :
          /\ m.pc = "extract" => chunks = <<>>
          /\ m.pc = "store" =>
                /\ Len(chunks) = m.i
                /\ \A j \in 1..Len(chunks) :
                      /\ chunks[j].metadata.document_id = req[r].document_id
                      /\ chunks[j].metadata.chunk_index = j - 1
                      /\ chunks[j].metadata.total_chunks > m.i

\* A read of a document's chunks during the store loop of a reprocess of the
\* document has returned some of its chunks and not all of them.
C21_Witness ==
    \E r \in Slots :
       /\ Done(r, "chunks")
       /\ req[r].result.kind = "returned"
       /\ \E m \in req[r].meanwhile : m.pc = "store"
       /\ Len(req[r].result.value) > 0
       /\ \A j \in 1..Len(req[r].result.value) :
             Len(req[r].result.value) < req[r].result.value[j].metadata.total_chunks

\* C22: whenever no request is in flight, every chunk in the collection
\* belongs to a document that has a row.
C22_NoOrphanChunks ==
    (\A r \in Slots : req[r].pc \in {"idle", "done"}) =>
    \A c \in collection : \E d \in documents : d.id = c.metadata.document_id

\* The extractor that belongs to a content type; "none" for a type that
\* names no supported format.
extractor_of_type(content_type) ==
    CASE content_type = "text/plain" -> "text"
      [] content_type = "text/markdown" -> "markdown"
      [] content_type = "application/pdf" -> "pdf"
      [] content_type = DOCX_TYPE -> "docx"
      [] startswith_image(content_type) -> "image"
      [] OTHER -> "none"

\* C24: _extract_text_from_file dispatches on the content type: a file
\* declared with a supported type goes to that type's extractor whatever
\* the ending of its path is, and the ending decides only for a type that
\* names no supported format.
C24_DispatchByContentType ==
    \A r \in Slots :
       Done(r, "extract_text") =>
       LET d == req[r].document IN
       IF extractor_of_type(d.content_type) # "none"
       THEN req[r].extractor = extractor_of_type(d.content_type)
       ELSE req[r].extractor = extractor_for(d.file_path, "application/octet-stream")

\* C25: the extraction of a PDF that holds text fails only if no library
\* gets text out of it: when PyPDF2 can, neither a failure nor an empty result
\* of pdfplumber fails the extraction.
C25_PdfFallback ==
    \A r \in Slots :
       (/\ Done(r, "extract_text")
        /\ req[r].extractor = "pdf"
        /\ files[req[r].document.file_path].format = "pdf"
        /\ req[r].text.kind = "raised")
       => (req[r].env.pdfplumber # "text" /\ req[r].env.PyPDF2 # "text")

\* C28: validate_session returns user info only for a session that is
\* active and has not expired, and a session that has been deactivated (by
\* logout_user, by validate_session on expiry, by the session limit or by
\* cleanup_expired_sessions) stays in the table and stays inactive: its
\* token is never validated again.
C28_DeactivatedStaysDeactivated ==
    [][/\ \A x \in user_sessions :
             ~x.is_active =>
                \E y \in user_sessions' : y.id = x.id /\ y.session_token = x.session_token
                                          /\ ~y.is_active
       /\ \A r \in Slots :
             (/\ req[r].pc = "idle"
              /\ req'[r].op \in {"profile", "current_active_user"}
              /\ req'[r].result.kind = "returned"
              /\ req'[r].result.value.present)
             => \E x \in user_sessions :
                   /\ x.session_token = req'[r].session_token
                   /\ x.is_active
                   /\ x.expires_at >= now
                   /\ req'[r].result.value.value.session_id = x.id]_vars

\* The token of a session that was deactivated has been presented and
\* validate_session has returned None for it.
C28_Witness ==
    \E r \in Slots :
       /\ Done(r, "profile")
       /\ ~req[r].fault
       /\ req[r].result = Returned(Null)
       /\ \E x \in user_sessions :
             /\ x.session_token = req[r].session_token
             /\ ~x.is_active
             /\ x.expires_at >= now

\* C29: an authentication that fails on the credentials (no user of that
\* name, a wrong password, a deactivated account) returns a result with
\* success false and an error, and leaves the users and the sessions as
\* they were: no session is created, none is deactivated and last_login is
\* unchanged.
C29_FailedLoginChangesNothing ==
    [][\A r \in Slots :
          (/\ req[r].pc = "idle"
           /\ req'[r].op = "login"
           /\ ~req'[r].correct)
          => /\ ~req'[r].result.value.success
             /\ "error" \in DOMAIN req'[r].result.value
             /\ user_sessions' = user_sessions
             /\ users' = users]_vars

\* A login with a wrong password, or for a deactivated account, has failed
\* while the user has an active session.
C29_Witness ==
    \E r \in Slots :
       /\ Done(r, "login")
       /\ ~req[r].correct
       /\ ~req[r].fault
       /\ \E u \in users :
             /\ u.username = req[r].user.username
             /\ \E x \in user_sessions : x.user_id = u.id /\ x.is_active

\* C30: get_current_active_user lets a request through when its token is a
\* valid session of a user whose account is active, and answers 403 only
\* for users whose account is deactivated.
C30_ActiveUserAdmitted ==
    \A r \in Slots :
       (Done(r, "current_active_user") /\ req[r].result.value.present) =>
       LET active == \E u \in users : /\ u.id = req[r].result.value.value.user_id
                                      /\ u.is_active
       IN
       /\ active => req[r].response.status = 200
       /\ req[r].response.status = 403 => ~active

\* C27: at every point each user has at most max_sessions_per_user active
\* sessions.
C27_SessionLimit ==
    \A u \in users :
       count_active_sessions(user_sessions, u.id) <= max_sessions_per_user

====
